---------------------------- MODULE Spec2Model ----------------------------
(***************************************************************************)
(* A model of the hybrid retrieval ranking and context-assembly engine of  *)
(* src/src/retrieval/ranking.py: score normalization and fusion, the       *)
(* near-duplicate filter and the document-diverse, token-budgeted context  *)
(* assembler.  Each function is modelled as a state machine that steps     *)
(* through its loops; one specification per function draws the function's  *)
(* arguments from bounded sets in its initial states.                      *)
(***************************************************************************)
EXTENDS Integers, Sequences, FiniteSets, TLC

(***************************************************************************)
(* Bounds of the model.                                                    *)
(***************************************************************************)
\* longest entry list handed to assemble_context_entries
MaxEntries == 4
\* largest max_chunks argument tried
MaxChunks == 4
\* longest score list handed to normalize_scores
MaxValues == 3
\* most candidates (dense and sparse together) handed to merge_candidate_scores
MaxCandidates == 3
\* longest entry list handed to filter_near_duplicates
MaxFilterEntries == 3

\* rerank_with_cross_encoder: candidate lists of up to MaxRerankShort
\* entries, and of DENSE_CANDIDATE_K - 1 up to DENSE_CANDIDATE_K +
\* MaxRerankExtra entries
MaxRerankShort == 3

MaxRerankExtra == 2

\* SparseIndex: chunks in a corpus
MaxCorpus == 3

\* a function invoked twice: candidates of merge_candidate_scores, and
\* entries of assemble_context_entries
MaxTwiceCandidates == 2

MaxTwiceEntries == 3

\* exhaustive retrieval: chunks get_all_chunks_by_metadata returns
MaxExhaustive == 2

\* add_documents_to_session: chunks in the session before, and chunks added
MaxOldDocs == 1

MaxNewDocs == 1

\* assemble_context_entries under fair scheduling: entries of the input
MaxRoundRobinEntries == 3

\* semantic retrieval: dense and sparse candidates together
MaxSemantic == 2

(***************************************************************************)
(* Program constants.                                                      *)
(***************************************************************************)
\* config/settings.py: CONTEXT_TOKEN_BUDGET
CONTEXT_TOKEN_BUDGET == 3500
\* config/settings.py: DENSE_SCORE_WEIGHT = 0.7, in tenths
DENSE_SCORE_WEIGHT == 7
\* config/settings.py: SPARSE_SCORE_WEIGHT = 0.3, in tenths
SPARSE_SCORE_WEIGHT == 3
\* ranking.py line 84: the tolerance 1e-9 of normalize_scores.  Scores are
\* floats; the model counts them in units of 0.5e-9, half the tolerance.
NORMALIZE_TOLERANCE == 2
\* config/settings.py: SIMILARITY_THRESHOLD = 0.75, in hundredths
SIMILARITY_THRESHOLD == 75
\* rag/pipeline.py line 250: similarity_threshold=0.90, in hundredths
EXHAUSTIVE_SIMILARITY_THRESHOLD == 90

\* config/settings.py line 73
DENSE_CANDIDATE_K == 50

\* config/settings.py line 74
RERANK_TOP_K == 12

\* rag/pipeline.py line 253: max_chunks=100
EXHAUSTIVE_MAX_CHUNKS == 100

\* settings.py: FINAL_CONTEXT_DOCS = 15
FINAL_CONTEXT_DOCS == 15

VARIABLES
  \* ---- normalize_scores ----
  values,                 \* argument: the scores
  normalized,             \* the result
  npc,                    \* where normalize_scores is
  \* ---- merge_candidate_scores ----
  dense_candidates,       \* argument: (doc, score) pairs of the dense channel
  sparse_candidates,      \* argument: (doc, score) pairs of the sparse channel
  aggregated,             \* the dict, as its items in insertion order
  combined,               \* the result
  mi,                     \* index of the candidate the current loop is at
  mpc,                    \* where merge_candidate_scores is
  \* ---- filter_near_duplicates ----
  filter_entries,         \* argument `entries`: the ranked entries
  similarity_threshold,   \* argument, in hundredths
  filtered,               \* the accepted entries (the result), as their ids
  fi,                     \* index of the entry the loop is at
  fpc,                    \* where filter_near_duplicates is
  \* ---- assemble_context_entries ----
  entries,                \* argument: the candidate entries
  max_chunks,             \* argument
  exhaustive_mode,        \* argument
  question_type,          \* argument
  sorted_clusters,        \* the clusters, best first, each sorted by score
  min_chunks_per_doc,     \* the per-cluster quota
  effective_token_budget,
  final_entries,          \* the entries accepted so far (the result)
  token_count,            \* running total of count_tokens of final_entries
  chunks_added,           \* pass 1: entries taken from the current cluster
  ci,                     \* pass 1: index of the current cluster
  ei,                     \* pass 1: index of the current entry in the cluster
  cluster_iters,          \* pass 2: per cluster, the next position to yield
  active_clusters,        \* pass 2: iterators that yielded in this cycle
  it,                     \* pass 2: index of the iterator the for loop is at
  apc,                    \* where assemble_context_entries is
  \* ---- rerank_with_cross_encoder ----
  rr_candidates,          \* argument `candidates`: the fused entries
  topo,                   \* argument
  cross_encoder,          \* the module global _cross_encoder
  model_loads,            \* CrossEncoder(...) constructions during the call
  predict_calls,          \* encoder.predict invocations during the call
  pairs,                  \* the pairs handed to encoder.predict
  scores,                 \* what encoder.predict returned
  reranked,               \* the list being built, then the result
  rri,                    \* index of the zip loop
  rpc,                    \* where rerank_with_cross_encoder is
  \* ---- SparseIndex and the session that holds one ----
  index_objs,             \* the SparseIndex objects, by object id
  session_index,          \* rag_session.sparse_index: an object id, 0 for no session
  store_docs,             \* the chunks in the session's vector store
  new_docs,               \* add_documents_to_session: argument
  build_docs,             \* SparseIndex.__init__: argument `documents`
  build_obj,              \* SparseIndex.__init__: self
  caller,                 \* who constructs the index
  wpc,                    \* where the constructing thread is
  q_ref,                  \* query: self, as read from the session
  query_text,             \* query: argument
  top_k,                  \* query: argument
  q_scores,               \* query: scores
  ranked,                 \* query: the result
  qpc,                    \* where the querying thread is
  \* ---- a function invoked a second time with the same arguments ----
  run,                    \* the number of invocations that have returned and been repeated
  first_output,           \* what the first invocation returned, and what the oracle answered it
  \* ---- retrieve_relevant_chunks, exhaustive mode ----
  exhaustive_results,     \* what get_all_chunks_by_metadata returned
  document_filter,        \* argument, "" for None
  ex_candidates,          \* the list `candidates`
  ex_filtered,            \* the list `filtered`
  ex_i,                   \* index of the loop over the candidates
  ex_warnings,            \* the warnings logged about the document filter
  context_entries,        \* the result
  xpc,                    \* where retrieve_relevant_chunks is
  \* ---- retrieve_relevant_chunks, semantic mode ----
  name_query,             \* user_input holds one of the name/address keywords
  all_chunks,             \* what session.vectorstore.get() returns
  merged,                 \* the list `merged`
  unique_entries,         \* the list `unique_entries`
  sem_i,                  \* index of the loop over all_chunks['metadatas']
  spc,                    \* where retrieve_relevant_chunks is
  \* ---- the memory of a call of one of the four functions ----
  heap,                   \* the objects, once the call has returned
  result,                 \* the reference the call returned
  mem_pc                  \* "returned" once the call has returned

normVars == <<values, normalized, npc>>

mergeVars == <<dense_candidates, sparse_candidates, aggregated, combined, mi, mpc>>

filterVars == <<filter_entries, similarity_threshold, filtered, fi, fpc>>

asmVars == <<entries, max_chunks, exhaustive_mode, question_type,
             sorted_clusters, min_chunks_per_doc, effective_token_budget,
             final_entries, token_count, chunks_added, ci, ei,
             cluster_iters, active_clusters, it, apc>>

rerankVars == <<rr_candidates, topo, cross_encoder, model_loads, predict_calls,
                pairs, scores, reranked, rri, rpc>>

sparseVars == <<index_objs, session_index, store_docs, new_docs, build_docs,
                build_obj, caller, wpc, q_ref, query_text, top_k, q_scores,
                ranked, qpc>>

\* the variables of the functions modelled further down
againVars == <<run, first_output>>

exVars == <<exhaustive_results, document_filter, ex_candidates, ex_filtered,
            ex_i, ex_warnings, context_entries, xpc>>

semVars == <<name_query, all_chunks, merged, unique_entries, sem_i, spc>>

memVars == <<heap, result, mem_pc>>

moreVars == <<semVars, memVars>>

restVars == <<rerankVars, sparseVars, againVars, exVars, moreVars>>

vars == <<normVars, mergeVars, filterVars, asmVars, restVars>>

\* A function that is not running: its variables hold fixed values.
NormIdle == values = <<>> /\ normalized = <<>> /\ npc = "idle"

MergeIdle ==
  /\ dense_candidates = <<>>
  /\ sparse_candidates = <<>>
  /\ aggregated = <<>>
  /\ combined = <<>>
  /\ mi = 0
  /\ mpc = "idle"

FilterIdle ==
  /\ filter_entries = <<>>
  /\ similarity_threshold = 0
  /\ filtered = <<>>
  /\ fi = 0
  /\ fpc = "idle"

AsmIdle ==
  /\ entries = <<>>
  /\ max_chunks = 0
  /\ exhaustive_mode = FALSE
  /\ question_type = "general"
  /\ sorted_clusters = <<>>
  /\ min_chunks_per_doc = 0
  /\ effective_token_budget = 0
  /\ final_entries = <<>>
  /\ token_count = 0
  /\ chunks_added = 0
  /\ ci = 0
  /\ ei = 0
  /\ cluster_iters = <<>>
  /\ active_clusters = 0
  /\ it = 0
  /\ apc = "idle"

RerankIdle ==
  /\ rr_candidates = <<>>
  /\ topo = 0
  /\ cross_encoder = "None"
  /\ model_loads = 0
  /\ predict_calls = 0
  /\ pairs = <<>>
  /\ scores = <<>>
  /\ reranked = <<>>
  /\ rri = 0
  /\ rpc = "idle"

\* a SparseIndex object that no constructor has touched
NoIndex == [documents |-> <<>>, texts |-> <<>>,
            vectorizer |-> [present |-> FALSE, vocabulary |-> {}],
            matrix |-> [present |-> FALSE, rows |-> <<>>],
            stage |-> "unallocated"]

SparseIdle ==
  /\ index_objs = [o \in 1..2 |-> NoIndex]
  /\ session_index = 0
  /\ store_docs = <<>>
  /\ new_docs = <<>>
  /\ build_docs = <<>>
  /\ build_obj = 0
  /\ caller = "none"
  /\ wpc = "idle"
  /\ q_ref = 0
  /\ query_text = <<>>
  /\ top_k = 0
  /\ q_scores = <<>>
  /\ ranked = <<>>
  /\ qpc = "idle"

\* no invocation has been repeated
AgainIdle == run = 0 /\ first_output = [out |-> <<>>, oracle |-> <<>>]

ExIdle ==
  /\ exhaustive_results = <<>>
  /\ document_filter = ""
  /\ ex_candidates = <<>>
  /\ ex_filtered = <<>>
  /\ ex_i = 0
  /\ ex_warnings = 0
  /\ context_entries = <<>>
  /\ xpc = "idle"

SemIdle ==
  /\ name_query = FALSE
  /\ all_chunks = <<>>
  /\ merged = <<>>
  /\ unique_entries = <<>>
  /\ sem_i = 0
  /\ spc = "idle"

MemIdle == heap = <<>> /\ result = 0 /\ mem_pc = "idle"

MoreIdle == SemIdle /\ MemIdle

RestIdle == RerankIdle /\ SparseIdle /\ AgainIdle /\ ExIdle /\ MoreIdle

(***************************************************************************)
(* Helpers.                                                                *)
(***************************************************************************)
Max2(a, b) == IF a >= b THEN a ELSE b

Range(s) == {s[i] : i \in DOMAIN s}

RECURSIVE SumSeq(_)
SumSeq(s) == IF s = <<>> THEN 0 ELSE Head(s) + SumSeq(Tail(s))

\* Python's list.sort(key=..., reverse=True) of s, keys[i] being the key of
\* s[i]: descending by key, and stable (elements with equal keys keep their
\* relative order).
SortDescStable(s, keys) ==
  LET n == Len(s)
      rank(i) == Cardinality({j \in 1..n :
                     \/ keys[j] > keys[i]
                     \/ keys[j] = keys[i] /\ j < i}) + 1
  IN  [r \in 1..n |-> s[CHOOSE i \in 1..n : rank(i) = r]]

(***************************************************************************)
(* Score normalization: normalize_scores.                                  *)
(*                                                                         *)
(* A score is a whole number of units of 0.5e-9.  A normalized score is    *)
(* the exact fraction <<numerator, denominator>>.                          *)
(***************************************************************************)
Abs(x) == IF x >= 0 THEN x ELSE -x

MinOf(vs) == CHOOSE v \in Range(vs) : \A w \in Range(vs) : v <= w

MaxOf(vs) == CHOOSE v \in Range(vs) : \A w \in Range(vs) : v >= w

\* normalize_scores with 0.0 instead of 1.0 for a uniform list
normalize_scores_uniform_zero(vs) ==
  IF vs = <<>> THEN <<>>
  ELSE LET min_val == MinOf(vs)
           max_val == MaxOf(vs)
       IN  IF Abs(max_val - min_val) < NORMALIZE_TOLERANCE
             THEN [i \in 1..Len(vs) |-> <<0, 1>>]
             ELSE [i \in 1..Len(vs) |-> <<vs[i] - min_val, max_val - min_val>>]

\* lines 78-87
normalize_scores(vs) ==
  IF vs = <<>> THEN <<>>
  ELSE LET min_val == MinOf(vs)
           max_val == MaxOf(vs)
       IN  IF Abs(max_val - min_val) < NORMALIZE_TOLERANCE
             THEN [i \in 1..Len(vs) |-> <<1, 1>>]
             ELSE [i \in 1..Len(vs) |-> <<vs[i] - min_val, max_val - min_val>>]

\* the scores the inputs are drawn from: 0 and 1 differ by less than the
\* tolerance, any other two by more
ScoreValues == {0, 1, 4, 8}

NormInit ==
  /\ \E n \in 0..MaxValues : values \in [1..n -> ScoreValues]
  /\ normalized = <<>>
  /\ npc = "call"
  /\ MergeIdle
  /\ FilterIdle
  /\ AsmIdle
  /\ RestIdle

\* one call of normalize_scores
Normalize ==
  /\ npc = "call"
  /\ normalized' = normalize_scores(values)
  /\ npc' = "done"
  /\ UNCHANGED <<values, mergeVars, filterVars, asmVars, restVars>>

SpecNormalize == NormInit /\ [][Normalize]_vars

(***************************************************************************)
(* Score fusion: merge_candidate_scores.                                   *)
(*                                                                         *)
(* A chunk is a Document object: oid is its identity (id(document)), and   *)
(* of its metadata the model keeps chunk_id and document_name, "" standing *)
(* for a missing key.  A metadata dict with no key is empty (falsy).       *)
(***************************************************************************)
\* The chunks the candidates are drawn from: two objects of the same chunk,
\* a second chunk, two chunks whose metadata lacks chunk_id, and a chunk
\* with empty metadata.
DocPool ==
  { [oid |-> "A1", metadata |-> [chunk_id |-> "c1", document_name |-> "a"]],
    [oid |-> "A2", metadata |-> [chunk_id |-> "c1", document_name |-> "a"]],
    [oid |-> "B1", metadata |-> [chunk_id |-> "c2", document_name |-> "b"]],
    [oid |-> "N1", metadata |-> [chunk_id |-> "",   document_name |-> "a"]],
    [oid |-> "N2", metadata |-> [chunk_id |-> "",   document_name |-> "b"]],
    [oid |-> "E1", metadata |-> [chunk_id |-> "",   document_name |-> ""]] }

\* `if document.metadata`: the dict has a key
MetadataNonEmpty(md) == md.chunk_id # "" \/ md.document_name # ""

\* lines 98-99: metadata.get("chunk_id") (None when the key is missing) for a
\* document with metadata, str(id(document)) otherwise
chunk_key(document) ==
  IF MetadataNonEmpty(document.metadata)
    THEN IF document.metadata.chunk_id # ""
           THEN [kind |-> "chunk_id", val |-> document.metadata.chunk_id]
           ELSE [kind |-> "None", val |-> ""]
    ELSE [kind |-> "id", val |-> document.oid]

\* dense scores are distances (>= 0); SparseIndex.query yields scores > 0
DenseScores == {0, 1, 4}

SparseScores == {1, 4}

DenseCands == { [doc |-> d, score |-> x] : d \in DocPool, x \in DenseScores }

SparseCands == { [doc |-> d, score |-> x] : d \in DocPool, x \in SparseScores }

HasKey(agg, key) == \E i \in 1..Len(agg) : agg[i].key = key

IndexOfKey(agg, key) == CHOOSE i \in 1..Len(agg) : agg[i].key = key

\* aggregated.setdefault(key, {"doc": doc, "dense_score": 0.0, "sparse_score": 0.0})
Setdefault(agg, key, doc) ==
  IF HasKey(agg, key) THEN agg
  ELSE Append(agg, [key |-> key, doc |-> doc, dense_score |-> 0, sparse_score |-> 0])

\* KeepMax overwriting the stored score with the latest one
KeepLast(old, new) == new

\* lines 104 and 109: max(entry[...], float(score))
KeepMax(old, new) == Max2(old, new)

\* line 120, on exact fractions; the weights are in tenths
FusedScore(dn, sn) ==
  << DENSE_SCORE_WEIGHT * dn[1] * sn[2] + SPARSE_SCORE_WEIGHT * sn[1] * dn[2],
     10 * dn[2] * sn[2] >>

\* lines 115-121
Combine(agg) ==
  LET dense_norm  == normalize_scores([i \in 1..Len(agg) |-> agg[i].dense_score])
      sparse_norm == normalize_scores([i \in 1..Len(agg) |-> agg[i].sparse_score])
  IN  [idx \in 1..Len(agg) |->
         [doc |-> agg[idx].doc, score |-> FusedScore(dense_norm[idx], sparse_norm[idx])]]

RECURSIVE ProdDen(_)
ProdDen(rs) == IF rs = <<>> THEN 1 ELSE Head(rs)[2] * ProdDen(Tail(rs))

\* whole-number sort keys in the order of the fractions rs
RatKeys(rs) == [i \in 1..Len(rs) |-> rs[i][1] * (ProdDen(rs) \div rs[i][2])]

\* SortCombined without reverse=True: ascending and stable
SortCombinedAscending(c) ==
  SortDescStable(c, [i \in 1..Len(c) |-> 0 - RatKeys([j \in 1..Len(c) |-> c[j].score])[i]])

\* line 123: combined.sort(key=lambda item: item["score"], reverse=True)
SortCombined(c) == SortDescStable(c, RatKeys([i \in 1..Len(c) |-> c[i].score]))

MergeInit ==
  /\ \E nd \in 0..MaxCandidates : \E ns \in 0..(MaxCandidates - nd) :
        /\ dense_candidates \in [1..nd -> DenseCands]
        /\ sparse_candidates \in [1..ns -> SparseCands]
  /\ aggregated = <<>>
  /\ combined = <<>>
  /\ mi = 1
  /\ mpc = "dense"
  /\ NormIdle
  /\ FilterIdle
  /\ AsmIdle
  /\ RestIdle

\* lines 101-104: one iteration of the loop over the dense candidates
DenseStep ==
  /\ mpc = "dense"
  /\ mi <= Len(dense_candidates)
  /\ LET doc == dense_candidates[mi].doc
         key == chunk_key(doc)
         agg == Setdefault(aggregated, key, doc)
     IN  aggregated' = [agg EXCEPT ![IndexOfKey(agg, key)].dense_score =
                           KeepMax(@, dense_candidates[mi].score)]
  /\ mi' = mi + 1
  /\ UNCHANGED <<dense_candidates, sparse_candidates, combined, mpc>>
  /\ UNCHANGED <<normVars, filterVars, asmVars, restVars>>

\* line 101 to line 106: the dense loop ends, the sparse loop begins
DenseEnd ==
  /\ mpc = "dense"
  /\ mi > Len(dense_candidates)
  /\ mpc' = "sparse"
  /\ mi' = 1
  /\ UNCHANGED <<dense_candidates, sparse_candidates, aggregated, combined>>
  /\ UNCHANGED <<normVars, filterVars, asmVars, restVars>>

\* lines 106-109: one iteration of the loop over the sparse candidates
SparseStep ==
  /\ mpc = "sparse"
  /\ mi <= Len(sparse_candidates)
  /\ LET doc == sparse_candidates[mi].doc
         key == chunk_key(doc)
         agg == Setdefault(aggregated, key, doc)
     IN  aggregated' = [agg EXCEPT ![IndexOfKey(agg, key)].sparse_score =
                           KeepMax(@, sparse_candidates[mi].score)]
  /\ mi' = mi + 1
  /\ UNCHANGED <<dense_candidates, sparse_candidates, combined, mpc>>
  /\ UNCHANGED <<normVars, filterVars, asmVars, restVars>>

\* lines 111-124: normalize, fuse, sort and return
Fuse ==
  /\ mpc = "sparse"
  /\ mi > Len(sparse_candidates)
  /\ combined' = IF aggregated = <<>> THEN <<>>
                 ELSE SortCombined(Combine(aggregated))
  /\ mpc' = "done"
  /\ UNCHANGED <<dense_candidates, sparse_candidates, aggregated, mi>>
  /\ UNCHANGED <<normVars, filterVars, asmVars, restVars>>

MergeNext == DenseStep \/ DenseEnd \/ SparseStep \/ Fuse

SpecMerge == MergeInit /\ [][MergeNext]_vars

(***************************************************************************)
(* Duplicate filter: filter_near_duplicates.                               *)
(*                                                                         *)
(* A text is a sequence of characters.  An entry is kept as its id (its    *)
(* position in the argument list) and the page_content of its chunk, a     *)
(* str.                                                                    *)
(***************************************************************************)
IsSpace(c) == c = " "

\* str.strip()
RECURSIVE LStrip(_)
LStrip(t) == IF t # <<>> /\ IsSpace(Head(t)) THEN LStrip(Tail(t)) ELSE t

RECURSIVE RStrip(_)
RStrip(t) ==
  IF t # <<>> /\ IsSpace(t[Len(t)]) THEN RStrip(SubSeq(t, 1, Len(t) - 1)) ELSE t

Strip(t) == RStrip(LStrip(t))

\* lines 69-75, for a str: str(content)
normalize_page_content(content) == content

\* lines 150 and 155: normalize_page_content(doc.page_content).strip()
NormalizedText(e) == Strip(normalize_page_content(e.page_content))

\* difflib.SequenceMatcher: the length of the common run of a from i and of b
\* from j, within a[..ahi] and b[..bhi]
RECURSIVE RunLength(_, _, _, _, _, _)
RunLength(a, b, i, j, ahi, bhi) ==
  IF i <= ahi /\ j <= bhi /\ a[i] = b[j]
    THEN 1 + RunLength(a, b, i + 1, j + 1, ahi, bhi)
    ELSE 0

SetMin(S) == CHOOSE x \in S : \A y \in S : x <= y

SetMax(S) == CHOOSE x \in S : \A y \in S : x >= y

\* SequenceMatcher.get_matching_blocks: the total size of the matching blocks
\* of a[alo..ahi] and b[blo..bhi]: the longest common block (the earliest in
\* a, then the earliest in b), then the same to its left and to its right
RECURSIVE MatchSize(_, _, _, _, _, _)
MatchSize(a, b, alo, ahi, blo, bhi) ==
  IF alo > ahi \/ blo > bhi THEN 0
  ELSE LET k == SetMax({RunLength(a, b, i, j, ahi, bhi) :
                          i \in alo..ahi, j \in blo..bhi})
       IN  IF k = 0 THEN 0
           ELSE LET i == SetMin({x \in alo..ahi : \E y \in blo..bhi :
                                    RunLength(a, b, x, y, ahi, bhi) = k})
                    j == SetMin({y \in blo..bhi :
                                    RunLength(a, b, i, y, ahi, bhi) = k})
                IN  k + MatchSize(a, b, alo, i - 1, blo, j - 1)
                      + MatchSize(a, b, i + k, ahi, j + k, bhi)

\* SequenceMatcher(None, a, b).ratio() = 2.0 * matches / (len(a) + len(b)),
\* 1.0 for two empty strings; as the exact fraction <<numerator, denominator>>
Ratio(a, b) ==
  IF Len(a) + Len(b) = 0 THEN <<1, 1>>
  ELSE << 2 * MatchSize(a, b, 1, Len(a), 1, Len(b)), Len(a) + Len(b) >>

\* line 156: ratio > similarity_threshold, the threshold in hundredths
Exceeds(r, threshold) == r[1] * 100 > threshold * r[2]

\* ComparedWith taking every earlier entry, accepted or not
ComparedWithAllEarlier(i) == [j \in 1..(i-1) |-> j]

\* line 157: for existing_entry in filtered
ComparedWith(i) == filtered

\* IsNearDuplicate comparing with the entry just before, accepted or not
IsNearDuplicateOfPrevious(i) ==
  /\ i > 1
  /\ Exceeds(Ratio(NormalizedText(filter_entries[i]),
                   NormalizedText(filter_entries[i - 1])),
             similarity_threshold)

\* lines 154-158: the text is too similar to one of the entries compared with
IsNearDuplicate(i) ==
  \E x \in 1..Len(ComparedWith(i)) :
     Exceeds(Ratio(NormalizedText(filter_entries[i]),
                   NormalizedText(filter_entries[ComparedWith(i)[x]])),
             similarity_threshold)

\* The texts the entries are drawn from.
TextPool ==
  { <<>>,
    <<" ">>,
    <<"a","b","c","d","e">>,
    <<"a","b","c","d","e"," ">>,
    <<"a","b","c","d","x">>,
    <<"a","b","c","y","x">>,
    <<"z","z">>,
    <<"a"," ","b">>,
    <<"a"," "," ","b">> }

\* the default threshold, and the one exhaustive retrieval passes
Thresholds == {SIMILARITY_THRESHOLD, EXHAUSTIVE_SIMILARITY_THRESHOLD}

FilterInit ==
  /\ \E n \in 0..MaxFilterEntries : \E f \in [1..n -> TextPool] :
        filter_entries = [i \in 1..n |-> [id |-> i, page_content |-> f[i]]]
  /\ similarity_threshold \in Thresholds
  /\ filtered = <<>>
  /\ fi = 1
  /\ fpc = "loop"
  /\ NormIdle
  /\ MergeIdle
  /\ AsmIdle
  /\ RestIdle

\* lines 148-161: one iteration of the loop over the entries
FilterStep ==
  /\ fpc = "loop"
  /\ fi <= Len(filter_entries)
  /\ IF NormalizedText(filter_entries[fi]) = <<>>
       THEN filtered' = filtered                                  \* continue
       ELSE IF IsNearDuplicate(fi)
              THEN filtered' = filtered                           \* continue
              ELSE filtered' = Append(filtered, fi)
  /\ fi' = fi + 1
  /\ UNCHANGED <<filter_entries, similarity_threshold, fpc>>
  /\ UNCHANGED <<normVars, mergeVars, asmVars, restVars>>

\* line 163: return filtered
FilterReturn ==
  /\ fpc = "loop"
  /\ fi > Len(filter_entries)
  /\ fpc' = "done"
  /\ UNCHANGED <<filter_entries, similarity_threshold, filtered, fi>>
  /\ UNCHANGED <<normVars, mergeVars, asmVars, restVars>>

FilterNext == FilterStep \/ FilterReturn

SpecFilter == FilterInit /\ [][FilterNext]_vars

(***************************************************************************)
(* Context assembler: assemble_context_entries.                            *)
(*                                                                         *)
(* An entry is a dict {"doc", "score"[, "rerank_score"]}.  Of the chunk it *)
(* carries the model keeps the two metadata keys the assembler reads       *)
(* (document_name and source, "" standing for a missing or empty value)    *)
(* and page_words, the number of whitespace-delimited words of its         *)
(* page_content, which is all count_tokens depends on.  id is the entry's  *)
(* position in the argument list: the entries are distinct objects.        *)
(***************************************************************************)
\* metadata.get("document_name") or metadata.get("source") or "unknown-source"
DocName(metadata) ==
  IF metadata.document_name # "" THEN metadata.document_name
  ELSE IF metadata.source # "" THEN metadata.source
  ELSE "unknown-source"

\* e.get("rerank_score", e.get("score", 0))
ScoreKey(e) == IF e.has_rerank THEN e.rerank_score ELSE e.score

\* count_tokens(entry["doc"]): len(text.split()), 0 for an empty text
count_tokens(e) == e.page_words

\* The metadata, score and text shapes the inputs are drawn from.
MetaShapes == { [document_name |-> "a", source |-> "x"],
                [document_name |-> "",  source |-> "b"] }

ScoreShapes == { [score |-> 1, has_rerank |-> FALSE, rerank_score |-> 0],
                 [score |-> 2, has_rerank |-> TRUE,  rerank_score |-> 0] }

\* a one-word chunk, and a chunk that alone exceeds the base budget
WordCounts == { 1, CONTEXT_TOKEN_BUDGET + 1 }

EntryShapes == { [metadata |-> m, score |-> s.score, has_rerank |-> s.has_rerank,
                  rerank_score |-> s.rerank_score, page_words |-> w] :
                 m \in MetaShapes, s \in ScoreShapes, w \in WordCounts }

MkEntry(i, sh) == [id |-> i, metadata |-> sh.metadata, score |-> sh.score,
                   has_rerank |-> sh.has_rerank, rerank_score |-> sh.rerank_score,
                   page_words |-> sh.page_words]

\* question_type in ["list", "count"]
IsListOrCount(qt) == qt \in {"list", "count"}

\* exhaustive_mode or is_list_or_count
Broad == exhaustive_mode \/ IsListOrCount(question_type)

\* doc_clusters: the names in order of first appearance (dict insertion order)
ClusterNames(es) ==
  LET firsts == {i \in 1..Len(es) :
                   \A j \in 1..(i-1) : DocName(es[j].metadata) # DocName(es[i].metadata)}
      nth(k)  == CHOOSE i \in firsts : Cardinality({j \in firsts : j < i}) = k - 1
  IN  [k \in 1..Cardinality(firsts) |-> DocName(es[nth(k)].metadata)]

\* doc_clusters[name], in input order
ClusterOf(es, name) == SelectSeq(es, LAMBDA e : DocName(e.metadata) = name)

\* the sort keys of a list of entries
ScoreKeys(es) == [i \in 1..Len(es) |-> ScoreKey(es[i])]

\* the sort keys of a list of clusters: the key of each one's first entry
BestKeys(clusters) == [k \in 1..Len(clusters) |-> ScoreKey(clusters[k][1])]

\* SortedClusters without the sort of line 199: the clusters keep input order
SortedClustersNoEntrySort(es) ==
  LET names    == ClusterNames(es)
      clusters == [k \in 1..Len(names) |-> ClusterOf(es, names[k])]
      sorted   == SortDescStable(clusters, BestKeys(clusters))
  IN  [k \in 1..Len(sorted) |-> [x \in 1..Len(sorted[k]) |-> sorted[k][x].id]]

\* lines 189-206: group by document, sort each cluster, sort the clusters.
\* A cluster is kept as the sequence of the ids of its entries.
SortedClusters(es) ==
  LET names    == ClusterNames(es)
      clusters == [k \in 1..Len(names) |->
                     LET c == ClusterOf(es, names[k])
                     IN  SortDescStable(c, ScoreKeys(c))]
      sorted   == SortDescStable(clusters, BestKeys(clusters))
  IN  [k \in 1..Len(sorted) |-> [x \in 1..Len(sorted[k]) |-> sorted[k][x].id]]

\* lines 220-224
EffectiveBudget(broad) ==
  IF broad THEN CONTEXT_TOKEN_BUDGET * 3 ELSE CONTEXT_TOKEN_BUDGET

\* MinChunksPerDoc with the quota of the other question types in every case
MinChunksPerDocDeep(is_list_or_count, mc, n) ==
  IF n = 0 THEN 1 ELSE Max2(2, mc \div n)

\* lines 230-234
MinChunksPerDoc(is_list_or_count, mc, n) ==
  IF n = 0 THEN 1
  ELSE IF is_list_or_count THEN Max2(1, mc \div (n * 2))
  ELSE Max2(2, mc \div n)

Modes == { <<FALSE, "general">>, <<TRUE, "general">>, <<FALSE, "list">> }

AsmInit ==
  /\ NormIdle
  /\ MergeIdle
  /\ FilterIdle
  /\ RestIdle
  \* The assembler reads a document's name only to compare it with another
  \* one, so the document of the first entry is fixed.
  /\ \E n \in 0..MaxEntries : \E f \in [1..n -> EntryShapes] :
        /\ n > 0 => DocName(f[1].metadata) = "a"
        /\ entries = [i \in 1..n |-> MkEntry(i, f[i])]
  /\ max_chunks \in 0..MaxChunks
  /\ \E m \in Modes : exhaustive_mode = m[1] /\ question_type = m[2]
  /\ sorted_clusters = <<>>
  /\ min_chunks_per_doc = 0
  /\ effective_token_budget = 0
  /\ final_entries = <<>>
  /\ token_count = 0
  /\ chunks_added = 0
  /\ ci = 0
  /\ ei = 0
  /\ cluster_iters = <<>>
  /\ active_clusters = 0
  /\ it = 0
  /\ apc = "start"

\* lines 185-234: the early return, grouping, sorting, budget and quota
Group ==
  /\ apc = "start"
  /\ IF entries = <<>>
       THEN /\ apc' = "done"
            /\ UNCHANGED <<sorted_clusters, min_chunks_per_doc,
                           effective_token_budget, ci, ei>>
       ELSE /\ sorted_clusters' = SortedClusters(entries)
            /\ effective_token_budget' = EffectiveBudget(Broad)
            /\ min_chunks_per_doc' =
                 MinChunksPerDoc(IsListOrCount(question_type), max_chunks,
                                 Len(SortedClusters(entries)))
            /\ ci' = 1
            /\ ei' = 1
            /\ apc' = "pass1"
  /\ UNCHANGED <<entries, max_chunks, exhaustive_mode, question_type,
                 final_entries, token_count, chunks_added,
                 cluster_iters, active_clusters, it>>
  /\ UNCHANGED <<normVars, mergeVars, filterVars, restVars>>

\* Full with the comparison off by one
FullOffByOne == Len(final_entries) > max_chunks

\* lines 240 and 269: len(final_entries) >= max_chunks
Full == Len(final_entries) >= max_chunks

\* Pass1Rejects testing the entry alone instead of the running total
Pass1RejectsEntryAlone(e) ==
  /\ ~Broad
  /\ count_tokens(e) > effective_token_budget
  /\ final_entries # <<>>

\* line 245: the budget test of pass 1
Pass1Rejects(e) ==
  /\ ~Broad
  /\ token_count + count_tokens(e) > effective_token_budget
  /\ final_entries # <<>>

\* Pass2Rejects applying the budget in every mode
Pass2RejectsAnyMode(e) ==
  token_count + count_tokens(e) > effective_token_budget

\* line 274: the budget test of pass 2
Pass2Rejects(e) ==
  /\ ~Broad
  /\ token_count + count_tokens(e) > effective_token_budget

\* the for loop of line 237 moves to the next cluster
NextCluster ==
  /\ ci' = ci + 1
  /\ ei' = 1
  /\ chunks_added' = 0

\* the for loop of line 239 moves to the next entry of the cluster, or ends
NextEntry(added) ==
  IF ei < Len(sorted_clusters[ci])
    THEN /\ ei' = ei + 1
         /\ chunks_added' = added
         /\ ci' = ci
    ELSE NextCluster

\* lines 237-255: one iteration of the inner loop of the quota pass
Pass1Step ==
  /\ apc = "pass1"
  /\ ci <= Len(sorted_clusters)
  /\ LET entry == entries[sorted_clusters[ci][ei]] IN
       \/ /\ Full                                                \* break
          \* the list is full: the inner loop breaks here and at the first
          \* entry of every later cluster, line 258 skips the second pass
          /\ apc' = "done"
          /\ UNCHANGED <<final_entries, token_count, chunks_added, ci, ei>>
       \/ /\ ~Full
          /\ Pass1Rejects(entry)                                  \* continue
          /\ NextEntry(chunks_added)
          /\ UNCHANGED <<final_entries, token_count, apc>>
       \/ /\ ~Full
          /\ ~Pass1Rejects(entry)
          /\ final_entries' = Append(final_entries, entry.id)
          /\ token_count' = token_count + count_tokens(entry)
          /\ IF chunks_added + 1 >= min_chunks_per_doc
               THEN NextCluster                                   \* break
               ELSE NextEntry(chunks_added + 1)
          /\ apc' = apc
  /\ UNCHANGED <<entries, max_chunks, exhaustive_mode, question_type,
                 sorted_clusters, min_chunks_per_doc, effective_token_budget,
                 cluster_iters, active_clusters, it>>
  /\ UNCHANGED <<normVars, mergeVars, filterVars, restVars>>

\* lines 258-263: after the quota pass, return or set up the round robin and
\* enter its while loop (active_clusters = len(cluster_iters) > 0 at the first
\* test of line 262, so the loop body starts its first cycle)
Pass2Begin ==
  /\ apc = "pass1"
  /\ ci > Len(sorted_clusters)
  /\ IF Len(final_entries) < max_chunks
       THEN /\ cluster_iters' = [k \in 1..Len(sorted_clusters) |->
                                   min_chunks_per_doc + 1]
            /\ active_clusters' = 0
            /\ it' = 1
            /\ apc' = "pass2"
       ELSE /\ apc' = "done"
            /\ UNCHANGED <<cluster_iters, active_clusters, it>>
  /\ UNCHANGED <<entries, max_chunks, exhaustive_mode, question_type,
                 sorted_clusters, min_chunks_per_doc, effective_token_budget,
                 final_entries, token_count, chunks_added, ci, ei>>
  /\ UNCHANGED <<normVars, mergeVars, filterVars, restVars>>

\* line 262: the while test after a cycle of the for loop
Pass2Cycle ==
  /\ apc = "pass2"
  /\ it > Len(sorted_clusters)
  /\ IF active_clusters > 0 /\ Len(final_entries) < max_chunks
       THEN /\ active_clusters' = 0
            /\ it' = 1
            /\ apc' = apc
       ELSE /\ apc' = "done"
            /\ UNCHANGED <<active_clusters, it>>
  /\ UNCHANGED <<entries, max_chunks, exhaustive_mode, question_type,
                 sorted_clusters, min_chunks_per_doc, effective_token_budget,
                 final_entries, token_count, chunks_added, ci, ei,
                 cluster_iters>>
  /\ UNCHANGED <<normVars, mergeVars, filterVars, restVars>>

\* next(cluster_iter) leaving the iterator where it is
SamePosition(pos) == pos

\* line 266: next(cluster_iter) consumes the entry it returns
NextPosition(pos) == pos + 1

\* lines 264-281: one iteration of the for loop over the cluster iterators
Pass2Step ==
  /\ apc = "pass2"
  /\ it <= Len(sorted_clusters)
  /\ LET cluster == sorted_clusters[it]
         pos     == cluster_iters[it]
     IN
       \/ /\ pos > Len(cluster)                                   \* StopIteration
          /\ it' = it + 1
          /\ UNCHANGED <<cluster_iters, active_clusters, final_entries,
                         token_count, apc>>
       \/ /\ pos <= Len(cluster)
          /\ cluster_iters' = [cluster_iters EXCEPT ![it] = NextPosition(pos)]
          /\ active_clusters' = active_clusters + 1
          /\ \/ /\ Full                                          \* break
                /\ apc' = "done"
                /\ UNCHANGED <<it, final_entries, token_count>>
             \/ /\ ~Full
                /\ Pass2Rejects(entries[cluster[pos]])            \* continue
                /\ it' = it + 1
                /\ UNCHANGED <<final_entries, token_count, apc>>
             \/ /\ ~Full
                /\ ~Pass2Rejects(entries[cluster[pos]])
                /\ final_entries' = Append(final_entries, cluster[pos])
                /\ token_count' = token_count + count_tokens(entries[cluster[pos]])
                /\ it' = it + 1
                /\ apc' = apc
  /\ UNCHANGED <<entries, max_chunks, exhaustive_mode, question_type,
                 sorted_clusters, min_chunks_per_doc, effective_token_budget,
                 chunks_added, ci, ei>>
  /\ UNCHANGED <<normVars, mergeVars, filterVars, restVars>>

AsmNext == Group \/ Pass1Step \/ Pass2Begin \/ Pass2Cycle \/ Pass2Step

SpecAssemble == AsmInit /\ [][AsmNext]_vars

\* The loops of lines 237-281 run to the return: the function is sequential
\* code without a blocking call, so a step of a loop that can be taken is
\* taken.
RoundRobinInit == AsmInit /\ Len(entries) <= MaxRoundRobinEntries

AsmLoops == Pass1Step \/ Pass2Begin \/ Pass2Cycle \/ Pass2Step

SpecRoundRobin == RoundRobinInit /\ [][AsmNext]_vars /\ WF_vars(AsmLoops)

(***************************************************************************)
(* Reranker: rerank_with_cross_encoder.                                    *)
(*                                                                         *)
(* A candidate is kept as its id, its position in the argument list.  The  *)
(* cross-encoder is an oracle: encoder.predict returns one score for each  *)
(* pair it is handed, and which scores is not the program's choice.        *)
(***************************************************************************)
Min2(a, b) == IF a <= b THEN a ELSE b

\* s[:n]
Prefix(s, n) == SubSeq(s, 1, Min2(n, Len(s)))

\* the candidate list taken whole
LimitedAll(cands) == cands

\* line 132: candidates[:DENSE_CANDIDATE_K]
Limited(cands) == Prefix(cands, DENSE_CANDIDATE_K)

\* an empty list never taken for empty
NotCandidatesNever(cands) == FALSE

\* line 128: not candidates
NotCandidates(cands) == cands = <<>>

\* line 141: reranked.sort(key=lambda item: item["rerank_score"], reverse=True)
SortReranked(r) == SortDescStable(r, [i \in 1..Len(r) |-> r[i].rerank_score])

\* the list cut to its first t entries and then sorted
TruncateThenSort(r, t) == SortReranked(Prefix(r, t))

\* lines 141-142: sort, then reranked[:topo]
SortThenTruncate(r, t) == Prefix(SortReranked(r), t)

\* The scores the oracle gives a short list: any.
OracleScores == {0, 1, 2}

\* The responses of the oracle to n pairs: every response for a short list,
\* and for a long one all scores equal, scores rising or falling along the
\* list, and scores repeating with period three.
OracleResponses(n) ==
  IF n <= MaxRerankShort
    THEN [1..n -> OracleScores]
    ELSE { [i \in 1..n |-> 0], [i \in 1..n |-> i], [i \in 1..n |-> 0 - i],
           [i \in 1..n |-> i % 3] }

\* What the oracle answers: to the pairs it has been handed before, what it
\* answered then.
OracleAnswers(n) ==
  IF run = 0 THEN OracleResponses(n) ELSE {first_output.oracle}

RerankLengths ==
  (0..MaxRerankShort) \cup
  ((DENSE_CANDIDATE_K - 1)..(DENSE_CANDIDATE_K + MaxRerankExtra))

\* the default of topo, and a small one
TopoValues == {1, RERANK_TOP_K}

RerankInit ==
  /\ \E n \in RerankLengths : rr_candidates = [i \in 1..n |-> i]
  /\ topo \in TopoValues
  /\ cross_encoder \in {"None", "model"}     \* loaded by an earlier call or not
  /\ model_loads = 0
  /\ predict_calls = 0
  /\ pairs = <<>>
  /\ scores = <<>>
  /\ reranked = <<>>
  /\ rri = 0
  /\ rpc = "start"
  /\ NormIdle
  /\ MergeIdle
  /\ FilterIdle
  /\ AsmIdle
  /\ SparseIdle
  /\ AgainIdle
  /\ ExIdle
  /\ MoreIdle

\* lines 128-129: no candidates, return []
RerankEmpty ==
  /\ rpc = "start"
  /\ NotCandidates(rr_candidates)
  /\ rpc' = "done"
  /\ UNCHANGED <<rr_candidates, topo, cross_encoder, model_loads,
                 predict_calls, pairs, scores, reranked, rri>>
  /\ UNCHANGED <<normVars, mergeVars, filterVars, asmVars, sparseVars, againVars, exVars, moreVars>>

\* line 131 and lines 29-34: get_cross_encoder()
RerankLoad ==
  /\ rpc = "start"
  /\ ~NotCandidates(rr_candidates)
  /\ IF cross_encoder = "None"
       THEN cross_encoder' = "model" /\ model_loads' = model_loads + 1
       ELSE UNCHANGED <<cross_encoder, model_loads>>
  /\ rpc' = "predict"
  /\ UNCHANGED <<rr_candidates, topo, predict_calls, pairs, scores, reranked,
                 rri>>
  /\ UNCHANGED <<normVars, mergeVars, filterVars, asmVars, sparseVars, againVars, exVars, moreVars>>

\* lines 132-135: limited, pairs, encoder.predict(pairs)
RerankPredict ==
  /\ rpc = "predict"
  /\ pairs' = Limited(rr_candidates)
  /\ scores' \in OracleAnswers(Len(Limited(rr_candidates)))
  /\ predict_calls' = predict_calls + 1
  /\ reranked' = <<>>
  /\ rri' = 1
  /\ rpc' = "zip"
  /\ UNCHANGED <<rr_candidates, topo, cross_encoder, model_loads>>
  /\ UNCHANGED <<normVars, mergeVars, filterVars, asmVars, sparseVars, againVars, exVars, moreVars>>

\* lines 136-139: one iteration of the loop over zip(limited, scores)
RerankCollect ==
  /\ rpc = "zip"
  /\ rri <= Min2(Len(Limited(rr_candidates)), Len(scores))
  /\ reranked' = Append(reranked, [entry |-> Limited(rr_candidates)[rri],
                                   rerank_score |-> scores[rri]])
  /\ rri' = rri + 1
  /\ UNCHANGED <<rr_candidates, topo, cross_encoder, model_loads,
                 predict_calls, pairs, scores, rpc>>
  /\ UNCHANGED <<normVars, mergeVars, filterVars, asmVars, sparseVars, againVars, exVars, moreVars>>

\* lines 141-142: sort and return reranked[:topo]
RerankReturn ==
  /\ rpc = "zip"
  /\ rri > Min2(Len(Limited(rr_candidates)), Len(scores))
  /\ reranked' = SortThenTruncate(reranked, topo)
  /\ rpc' = "done"
  /\ UNCHANGED <<rr_candidates, topo, cross_encoder, model_loads,
                 predict_calls, pairs, scores, rri>>
  /\ UNCHANGED <<normVars, mergeVars, filterVars, asmVars, sparseVars, againVars, exVars, moreVars>>

RerankNext ==
  RerankEmpty \/ RerankLoad \/ RerankPredict \/ RerankCollect \/ RerankReturn

SpecRerank == RerankInit /\ [][RerankNext]_vars

(***************************************************************************)
(* Lexical index: SparseIndex.                                             *)
(*                                                                         *)
(* A page_content is a sequence of tokens: a token is a whitespace " " or  *)
(* a word.  TfidfVectorizer keeps the words that are not English stop      *)
(* words; the weight it gives a term of a text is positive, so that the    *)
(* score of a row for a query is positive exactly when the row and the     *)
(* query share a term of the vocabulary.  How large is not modelled: any   *)
(* positive score may come back.                                           *)
(***************************************************************************)
StopWords == {"the"}

\* the terms TfidfVectorizer extracts from a text
Terms(text) == {w \in Range(text) : ~IsSpace(w) /\ w \notin StopWords}

\* line 42: (doc.page_content or "").strip()
TextsOf(documents) == [i \in 1..Len(documents) |-> Strip(documents[i].page_content)]

\* line 47: self.texts and any(self.texts)
AnyText(texts) == \E i \in 1..Len(texts) : texts[i] # <<>>

Vocabulary(texts) == UNION {Terms(texts[i]) : i \in 1..Len(texts)}

\* line 48-52: fit_transform raises ValueError on an empty vocabulary
FitRaises(texts) == Vocabulary(texts) = {}

\* the object once SparseIndex(documents) has returned
CompleteIndex(documents) ==
  LET texts == TextsOf(documents)
      active == AnyText(texts) /\ ~FitRaises(texts)
  IN  [documents |-> documents, texts |-> texts,
       vectorizer |-> [present |-> active,
                       vocabulary |-> IF active THEN Vocabulary(texts) ELSE {}],
       matrix |-> [present |-> active,
                   rows |-> IF active
                              THEN [i \in 1..Len(texts) |-> Terms(texts[i])]
                              ELSE <<>>],
       stage |-> "built"]

PositiveScores == {1, 2}

\* scores that have nothing to do with the query
ScoreArraysAny(index, text) ==
  [1..Len(index.matrix.rows) -> {0} \cup PositiveScores]

\* lines 58-59: the scores of the rows for the query
ScoreArrays(index, text) ==
  LET qterms == Terms(text) \cap index.vectorizer.vocabulary
      n == Len(index.matrix.rows)
  IN  { f \in [1..n -> {0} \cup PositiveScores] :
          \A i \in 1..n : f[i] > 0 <=> index.matrix.rows[i] \cap qterms # {} }

\* an index never taken for inactive
InactiveNever(index) == FALSE

\* line 55: not self.vectorizer or self.matrix is None
Inactive(index) == ~index.vectorizer.present \/ ~index.matrix.present

\* rows of any score kept
KeepAll(score) == TRUE

\* line 63: if score > 0
KeepPositive(score) == score > 0

\* lines 60-64: the (document, score) pairs of the rows kept
RankedPairs(index, sc) ==
  LET kept == SelectSeq([i \in 1..Len(sc) |-> i], LAMBDA i : KeepPositive(sc[i]))
  IN  [x \in 1..Len(kept) |-> [doc |-> index.documents[kept[x]],
                               score |-> sc[kept[x]]]]

\* line 65: ranked.sort(key=lambda entry: entry[1], reverse=True)
SortRanked(r) == SortDescStable(r, [i \in 1..Len(r) |-> r[i].score])

\* the page_contents of the chunks; None is stored as the empty text
Contents ==
  { <<>>, <<" ">>, <<"the">>, <<"alpha">>, <<"beta">>,
    <<" ", "alpha", " ", "beta">> }

QueryTexts == { <<>>, <<"the">>, <<"alpha">>, <<"alpha", " ", "beta">> }

\* small values of top_k, and the pipeline's
TopKValues == {1, 2, DENSE_CANDIDATE_K}

Corpora(n) ==
  UNION { { [i \in 1..k |-> [id |-> i, page_content |-> f[i]]] :
              f \in [1..k -> Contents] } : k \in 0..n }

\* rag/pipeline.py lines 393-403: a session is created with the index of
\* the chunks of its documents, and queried afterwards
SparseInit ==
  /\ index_objs = [o \in 1..2 |-> NoIndex]
  /\ session_index = 0
  /\ store_docs \in Corpora(MaxCorpus)
  /\ new_docs = <<>>
  /\ build_docs = <<>>
  /\ build_obj = 0
  /\ caller = "pipeline"
  /\ wpc = "construct"
  /\ q_ref = 0
  /\ query_text \in QueryTexts
  /\ top_k \in TopKValues
  /\ q_scores = <<>>
  /\ ranked = <<>>
  /\ qpc = "start"
  /\ NormIdle
  /\ MergeIdle
  /\ FilterIdle
  /\ AsmIdle
  /\ RerankIdle
  /\ AgainIdle
  /\ ExIdle
  /\ MoreIdle

\* the index built in the object the session already refers to
InPlace(ref) == ref

\* SparseIndex(...) allocates an object: the one after the session's
NewObject(ref) == ref + 1

\* rag/pipeline.py line 393: SparseIndex(splits) is called
Construct ==
  /\ wpc = "construct"
  /\ build_docs' = store_docs
  /\ build_obj' = NewObject(session_index)
  /\ wpc' = "init"
  /\ UNCHANGED <<index_objs, session_index, store_docs, new_docs, caller,
                 q_ref, query_text, top_k, q_scores, ranked, qpc>>
  /\ UNCHANGED <<normVars, mergeVars, filterVars, asmVars, rerankVars, againVars, exVars, moreVars>>

\* lines 41-44: documents, texts, vectorizer = None, matrix = None
IndexInit ==
  /\ wpc = "init"
  /\ index_objs' = [index_objs EXCEPT ![build_obj] =
        [documents |-> build_docs, texts |-> TextsOf(build_docs),
         vectorizer |-> [present |-> FALSE, vocabulary |-> {}],
         matrix |-> [present |-> FALSE, rows |-> <<>>],
         stage |-> "init"]]
  /\ wpc' = "vectorizer"
  /\ UNCHANGED <<session_index, store_docs, new_docs, build_docs, build_obj,
                 caller, q_ref, query_text, top_k, q_scores, ranked, qpc>>
  /\ UNCHANGED <<normVars, mergeVars, filterVars, asmVars, rerankVars, againVars, exVars, moreVars>>

\* lines 46-48: with a text that is not empty, self.vectorizer = TfidfVectorizer(...)
IndexVectorizer ==
  /\ wpc = "vectorizer"
  /\ IF AnyText(index_objs[build_obj].texts)
       THEN /\ index_objs' = [index_objs EXCEPT
                 ![build_obj].vectorizer = [present |-> TRUE, vocabulary |-> {}],
                 ![build_obj].stage = "vectorizer"]
            /\ wpc' = "fit"
       ELSE /\ index_objs' = [index_objs EXCEPT ![build_obj].stage = "built"]
            /\ wpc' = "assign"
  /\ UNCHANGED <<session_index, store_docs, new_docs, build_docs, build_obj,
                 caller, q_ref, query_text, top_k, q_scores, ranked, qpc>>
  /\ UNCHANGED <<normVars, mergeVars, filterVars, asmVars, rerankVars, againVars, exVars, moreVars>>

\* lines 49-52: self.matrix = self.vectorizer.fit_transform(self.texts), or
\* on ValueError both set to None
IndexFitTransform ==
  /\ wpc = "fit"
  /\ LET texts == index_objs[build_obj].texts
     IN  IF FitRaises(texts)
           THEN index_objs' = [index_objs EXCEPT
                  ![build_obj].vectorizer = [present |-> FALSE, vocabulary |-> {}],
                  ![build_obj].matrix = [present |-> FALSE, rows |-> <<>>],
                  ![build_obj].stage = "built"]
           ELSE index_objs' = [index_objs EXCEPT
                  ![build_obj].vectorizer = [present |-> TRUE,
                                             vocabulary |-> Vocabulary(texts)],
                  ![build_obj].matrix =
                     [present |-> TRUE,
                      rows |-> [i \in 1..Len(texts) |-> Terms(texts[i])]],
                  ![build_obj].stage = "built"]
  /\ wpc' = "assign"
  /\ UNCHANGED <<session_index, store_docs, new_docs, build_docs, build_obj,
                 caller, q_ref, query_text, top_k, q_scores, ranked, qpc>>
  /\ UNCHANGED <<normVars, mergeVars, filterVars, asmVars, rerankVars, againVars, exVars, moreVars>>

\* rag/pipeline.py lines 400-403: RagSession(..., sparse_index=sparse_index)
CreateSession ==
  /\ wpc = "assign"
  /\ caller = "pipeline"
  /\ session_index' = build_obj
  /\ wpc' = "done"
  /\ UNCHANGED <<index_objs, store_docs, new_docs, build_docs, build_obj,
                 caller, q_ref, query_text, top_k, q_scores, ranked, qpc>>
  /\ UNCHANGED <<normVars, mergeVars, filterVars, asmVars, rerankVars, againVars, exVars, moreVars>>

\* rag/pipeline.py line 303: session.sparse_index.query(...) reads the reference
QueryRead ==
  /\ qpc = "start"
  /\ session_index # 0
  /\ q_ref' = session_index
  /\ qpc' = "check"
  /\ UNCHANGED <<index_objs, session_index, store_docs, new_docs, build_docs,
                 build_obj, caller, wpc, query_text, top_k, q_scores, ranked>>
  /\ UNCHANGED <<normVars, mergeVars, filterVars, asmVars, rerankVars, againVars, exVars, moreVars>>

\* lines 55-56: if not self.vectorizer or self.matrix is None: return []
QueryCheck ==
  /\ qpc = "check"
  /\ IF Inactive(index_objs[q_ref])
       THEN ranked' = <<>> /\ qpc' = "done"
       ELSE ranked' = ranked /\ qpc' = "score"
  /\ UNCHANGED <<index_objs, session_index, store_docs, new_docs, build_docs,
                 build_obj, caller, wpc, q_ref, query_text, top_k, q_scores>>
  /\ UNCHANGED <<normVars, mergeVars, filterVars, asmVars, rerankVars, againVars, exVars, moreVars>>

\* lines 58-59: query_vec and scores
QueryScore ==
  /\ qpc = "score"
  /\ q_scores' \in ScoreArrays(index_objs[q_ref], query_text)
  /\ qpc' = "rank"
  /\ UNCHANGED <<index_objs, session_index, store_docs, new_docs, build_docs,
                 build_obj, caller, wpc, q_ref, query_text, top_k, ranked>>
  /\ UNCHANGED <<normVars, mergeVars, filterVars, asmVars, rerankVars, againVars, exVars, moreVars>>

\* lines 60-66: ranked, sorted, cut to top_k
QueryRank ==
  /\ qpc = "rank"
  /\ ranked' = Prefix(SortRanked(RankedPairs(index_objs[q_ref], q_scores)), top_k)
  /\ qpc' = "done"
  /\ UNCHANGED <<index_objs, session_index, store_docs, new_docs, build_docs,
                 build_obj, caller, wpc, q_ref, query_text, top_k, q_scores>>
  /\ UNCHANGED <<normVars, mergeVars, filterVars, asmVars, rerankVars, againVars, exVars, moreVars>>

SparseNext ==
  \/ Construct \/ IndexInit \/ IndexVectorizer \/ IndexFitTransform
  \/ CreateSession
  \/ QueryRead \/ QueryCheck \/ QueryScore \/ QueryRank

SpecSparse == SparseInit /\ [][SparseNext]_vars

(***************************************************************************)
(* A function invoked a second time with the arguments of the first        *)
(* invocation.  The locals start afresh; the module global _cross_encoder  *)
(* is as the first invocation left it, and the oracle answers the same     *)
(* pairs as it did.                                                        *)
(***************************************************************************)
\* a list carried over from the invocation before
CarriedList(previous) == previous

\* line 213: final_entries = []
FreshList(previous) == <<>>

\* merge_candidate_scores(dense_candidates, sparse_candidates) once more
MergeAgain ==
  /\ run = 0
  /\ mpc = "done"
  /\ first_output' = [out |-> combined, oracle |-> <<>>]
  /\ run' = 1
  /\ aggregated' = <<>>
  /\ combined' = <<>>
  /\ mi' = 1
  /\ mpc' = "dense"
  /\ UNCHANGED <<dense_candidates, sparse_candidates>>
  /\ UNCHANGED <<normVars, filterVars, asmVars, rerankVars, sparseVars, exVars, moreVars>>

\* rerank_with_cross_encoder(question, candidates, topo) once more
RerankAgain ==
  /\ run = 0
  /\ rpc = "done"
  /\ first_output' = [out |-> reranked, oracle |-> scores]
  /\ run' = 1
  /\ model_loads' = 0
  /\ predict_calls' = 0
  /\ pairs' = <<>>
  /\ scores' = <<>>
  /\ reranked' = <<>>
  /\ rri' = 0
  /\ rpc' = "start"
  /\ UNCHANGED <<rr_candidates, topo, cross_encoder>>
  /\ UNCHANGED <<normVars, mergeVars, filterVars, asmVars, sparseVars, exVars, moreVars>>

\* filter_near_duplicates(entries, similarity_threshold) once more
FilterAgain ==
  /\ run = 0
  /\ fpc = "done"
  /\ first_output' = [out |-> filtered, oracle |-> <<>>]
  /\ run' = 1
  /\ filtered' = <<>>
  /\ fi' = 1
  /\ fpc' = "loop"
  /\ UNCHANGED <<filter_entries, similarity_threshold>>
  /\ UNCHANGED <<normVars, mergeVars, asmVars, rerankVars, sparseVars, exVars, moreVars>>

\* assemble_context_entries(entries, max_chunks, exhaustive_mode,
\* question_type) once more
AsmAgain ==
  /\ run = 0
  /\ apc = "done"
  /\ first_output' = [out |-> final_entries, oracle |-> <<>>]
  /\ run' = 1
  /\ sorted_clusters' = <<>>
  /\ min_chunks_per_doc' = 0
  /\ effective_token_budget' = 0
  /\ final_entries' = FreshList(final_entries)
  /\ token_count' = 0
  /\ chunks_added' = 0
  /\ ci' = 0
  /\ ei' = 0
  /\ cluster_iters' = <<>>
  /\ active_clusters' = 0
  /\ it' = 0
  /\ apc' = "start"
  /\ UNCHANGED <<entries, max_chunks, exhaustive_mode, question_type>>
  /\ UNCHANGED <<normVars, mergeVars, filterVars, rerankVars, sparseVars, exVars, moreVars>>

TwiceInit ==
  \/ MergeInit /\ Len(dense_candidates) + Len(sparse_candidates) <= MaxTwiceCandidates
  \/ RerankInit
  \/ FilterInit
  \/ AsmInit /\ Len(entries) <= MaxTwiceEntries

TwiceNext ==
  \/ MergeNext \/ MergeAgain
  \/ RerankNext \/ RerankAgain
  \/ FilterNext \/ FilterAgain
  \/ AsmNext \/ AsmAgain

SpecTwice == TwiceInit /\ [][TwiceNext]_vars

(***************************************************************************)
(* Exhaustive retrieval: retrieve_relevant_chunks in mode 'exhaustive'.    *)
(*                                                                         *)
(* A document name and a document filter are strings; Chars spells them.   *)
(* A candidate is a chunk of the vector store: its id, its document_name   *)
(* ("" when the metadata has none) and its page_content.                   *)
(***************************************************************************)
Chars(name) ==
  CASE name = "" -> <<>>
    [] name = "A.pdf" -> <<"A", ".", "p", "d", "f">>
    [] name = "A.PDF" -> <<"A", ".", "P", "D", "F">>
    [] name = "a_b" -> <<"a", "_", "b">>
    [] name = "a-b" -> <<"a", "-", "b">>
    [] name = "a" -> <<"a">>
    [] name = "c" -> <<"c">>
    [] name = "z" -> <<"z">>
    [] name = "a-chunk-0" -> <<"a", "-", "c", "h", "u", "n", "k", "-", "0">>
    [] name = "a-chunk-1" -> <<"a", "-", "c", "h", "u", "n", "k", "-", "1">>
    [] name = "b-chunk-0" -> <<"b", "-", "c", "h", "u", "n", "k", "-", "0">>

\* str.lower()
LowerChar(c) ==
  CASE c = "A" -> "a" [] c = "P" -> "p" [] c = "D" -> "d" [] c = "F" -> "f"
    [] OTHER -> c

Lower(t) == [i \in 1..Len(t) |-> LowerChar(t[i])]

\* str.replace(sub, '')
RECURSIVE Remove(_, _)
Remove(t, sub) ==
  IF Len(t) < Len(sub) THEN t
  ELSE IF SubSeq(t, 1, Len(sub)) = sub
         THEN Remove(SubSeq(t, Len(sub) + 1, Len(t)), sub)
         ELSE <<t[1]>> \o Remove(Tail(t), sub)

\* str.replace(c, d) for single characters
ReplaceChar(t, c, d) == [i \in 1..Len(t) |-> IF t[i] = c THEN d ELSE t[i]]

\* sub in t
Contains(sub, t) ==
  \E i \in 0..(Len(t) - Len(sub)) : SubSeq(t, i + 1, i + Len(sub)) = sub

\* lines 207-208 and 214-215: the extension removed, '_' and '-' made spaces
Base(lower) ==
  LET noext == Remove(Remove(Remove(lower, <<".", "p", "d", "f">>),
                             <<".", "d", "o", "c", "x">>),
                      <<".", "x", "l", "s", "x">>)
  IN  ReplaceChar(ReplaceChar(noext, "_", " "), "-", " ")

\* lines 218-229: the matching strategies
Matched(filter, doc_name) ==
  LET doc_filter_lower == Lower(Chars(filter))
      doc_filter_base == Base(doc_filter_lower)
      doc_name_lower == Lower(Chars(doc_name))
      doc_name_base == Base(doc_name_lower)
  IN  \/ doc_filter_lower = doc_name_lower
      \/ doc_filter_base = doc_name_base
      \/ Contains(doc_filter_lower, doc_name_lower)
      \/ Contains(doc_name_lower, doc_filter_lower)
      \/ /\ doc_filter_base # <<>>
         /\ doc_name_base # <<>>
         /\ \/ Contains(doc_filter_base, doc_name_base)
            \/ Contains(doc_name_base, doc_filter_base)

\* the fallback never taken
NoMatchNever(flt) == FALSE

\* line 239: len(filtered) == 0
NoMatch(flt) == Len(flt) = 0

\* len(text.split()): the number of words of a text
WordCount(t) ==
  Cardinality({i \in 1..Len(t) :
                 ~IsSpace(t[i]) /\ (i = 1 \/ IsSpace(t[i - 1]))})

DocumentNames == {"A.pdf", "a_b", "c", ""}

DocumentFilters == {"", "a", "a-b", "z", "A.PDF"}

ExhaustiveTexts ==
  { <<"a","b","c","d","e">>, <<"a","b","c","d","e"," ">>, <<"z","z">> }

\* lines 181-194: what get_all_chunks_by_metadata returns, as candidates
ExhaustiveResults(n) ==
  UNION { { [i \in 1..k |-> [id |-> i, document_name |-> f[i][1],
                              page_content |-> f[i][2]]] :
              f \in [1..k -> DocumentNames \X ExhaustiveTexts] } : k \in 0..n }

ExhaustiveInit ==
  /\ exhaustive_results \in ExhaustiveResults(MaxExhaustive)
  /\ document_filter \in DocumentFilters
  /\ ex_candidates = <<>>
  /\ ex_filtered = <<>>
  /\ ex_i = 0
  /\ ex_warnings = 0
  /\ context_entries = <<>>
  /\ xpc = "start"
  /\ NormIdle
  /\ MergeIdle
  /\ FilterIdle
  /\ AsmIdle
  /\ RerankIdle
  /\ SparseIdle
  /\ AgainIdle
  /\ MoreIdle

\* lines 181-199: the candidates, and the test of document_filter
ExStart ==
  /\ xpc = "start"
  /\ ex_candidates' = exhaustive_results
  /\ IF document_filter # ""
       THEN ex_i' = 1 /\ xpc' = "match"
       ELSE ex_i' = ex_i /\ xpc' = "dedup"
  /\ UNCHANGED <<exhaustive_results, document_filter, ex_filtered,
                 ex_warnings, context_entries>>
  /\ UNCHANGED <<normVars, mergeVars, filterVars, asmVars, rerankVars,
                 sparseVars, againVars, moreVars>>

\* lines 211-234: one iteration of the loop over the candidates
ExMatchStep ==
  /\ xpc = "match"
  /\ ex_i <= Len(ex_candidates)
  /\ ex_filtered' =
       IF Matched(document_filter, ex_candidates[ex_i].document_name)
         THEN Append(ex_filtered, ex_candidates[ex_i])
         ELSE ex_filtered
  /\ ex_i' = ex_i + 1
  /\ UNCHANGED <<exhaustive_results, document_filter, ex_candidates,
                 ex_warnings, context_entries, xpc>>
  /\ UNCHANGED <<normVars, mergeVars, filterVars, asmVars, rerankVars,
                 sparseVars, againVars, moreVars>>

\* lines 236-246: no match, warn and keep every candidate; candidates = filtered
ExFallback ==
  /\ xpc = "match"
  /\ ex_i > Len(ex_candidates)
  /\ IF NoMatch(ex_filtered)
       THEN /\ ex_warnings' = ex_warnings + 3
            /\ ex_filtered' = ex_candidates
            /\ ex_candidates' = ex_candidates
       ELSE /\ ex_warnings' = ex_warnings
            /\ ex_filtered' = ex_filtered
            /\ ex_candidates' = ex_filtered
  /\ xpc' = "dedup"
  /\ UNCHANGED <<exhaustive_results, document_filter, ex_i, context_entries>>
  /\ UNCHANGED <<normVars, mergeVars, filterVars, asmVars, rerankVars,
                 sparseVars, againVars, moreVars>>

\* line 250: filter_near_duplicates(candidates, similarity_threshold=0.90) is called
ExDedup ==
  /\ xpc = "dedup"
  /\ filter_entries' = [i \in 1..Len(ex_candidates) |->
                          [id |-> i, page_content |-> ex_candidates[i].page_content]]
  /\ similarity_threshold' = EXHAUSTIVE_SIMILARITY_THRESHOLD
  /\ filtered' = <<>>
  /\ fi' = 1
  /\ fpc' = "loop"
  /\ xpc' = "filtering"
  /\ UNCHANGED <<exhaustive_results, document_filter, ex_candidates,
                 ex_filtered, ex_i, ex_warnings, context_entries>>
  /\ UNCHANGED <<normVars, mergeVars, asmVars, rerankVars, sparseVars,
                 againVars, moreVars>>

\* the entry the assembler is handed for a candidate: no rerank_score
ExhaustiveEntry(k, c) ==
  MkEntry(k, [metadata |-> [document_name |-> c.document_name, source |-> ""],
              score |-> 1, has_rerank |-> FALSE, rerank_score |-> 0,
              page_words |-> WordCount(c.page_content)])

\* line 253: assemble_context_entries(unique_entries, max_chunks=100,
\* exhaustive_mode=True, question_type=question_type) is called
ExAssemble ==
  /\ xpc = "filtering"
  /\ fpc = "done"
  /\ entries' = [k \in 1..Len(filtered) |->
                   ExhaustiveEntry(k, ex_candidates[filtered[k]])]
  /\ max_chunks' = EXHAUSTIVE_MAX_CHUNKS
  /\ exhaustive_mode' = TRUE
  /\ question_type' \in {"general", "list"}
  /\ apc' = "start"
  /\ xpc' = "assembling"
  /\ UNCHANGED <<sorted_clusters, min_chunks_per_doc, effective_token_budget,
                 final_entries, token_count, chunks_added, ci, ei,
                 cluster_iters, active_clusters, it>>
  /\ UNCHANGED <<exhaustive_results, document_filter, ex_candidates,
                 ex_filtered, ex_i, ex_warnings, context_entries>>
  /\ UNCHANGED <<normVars, mergeVars, filterVars, rerankVars, sparseVars,
                 againVars, moreVars>>

\* lines 255-258: return context_entries
ExReturn ==
  /\ xpc = "assembling"
  /\ apc = "done"
  /\ context_entries' = [k \in 1..Len(final_entries) |->
                           ex_candidates[filtered[final_entries[k]]].id]
  /\ xpc' = "done"
  /\ UNCHANGED <<exhaustive_results, document_filter, ex_candidates,
                 ex_filtered, ex_i, ex_warnings>>
  /\ UNCHANGED <<normVars, mergeVars, filterVars, asmVars, rerankVars,
                 sparseVars, againVars, moreVars>>

ExhaustiveNext ==
  \/ ExStart \/ ExMatchStep \/ ExFallback
  \/ ExDedup \/ FilterNext
  \/ ExAssemble \/ AsmNext
  \/ ExReturn

SpecExhaustive == ExhaustiveInit /\ [][ExhaustiveNext]_vars

(***************************************************************************)
(* SessionManager.add_documents_to_session, while a query of the session   *)
(* runs in another thread.                                                 *)
(***************************************************************************)
\* the chunks numbered by their position in the store
Renumbered(docs) ==
  [i \in 1..Len(docs) |-> [id |-> i, page_content |-> docs[i].page_content]]

SwapInit ==
  /\ store_docs \in Corpora(MaxOldDocs)
  /\ index_objs = [o \in 1..2 |->
                     IF o = 1 THEN CompleteIndex(store_docs) ELSE NoIndex]
  /\ session_index = 1
  /\ new_docs \in Corpora(MaxNewDocs)
  /\ build_docs = <<>>
  /\ build_obj = 0
  /\ caller = "add_documents"
  /\ wpc = "add"
  /\ q_ref = 0
  /\ query_text \in QueryTexts
  /\ top_k = DENSE_CANDIDATE_K
  /\ q_scores = <<>>
  /\ ranked = <<>>
  /\ qpc = "start"
  /\ NormIdle
  /\ MergeIdle
  /\ FilterIdle
  /\ AsmIdle
  /\ RerankIdle
  /\ AgainIdle
  /\ ExIdle
  /\ MoreIdle

\* models/session_manager.py line 285: rag_session.vectorstore.add_documents(new_docs)
AddDocuments ==
  /\ wpc = "add"
  /\ store_docs' = Renumbered(store_docs \o new_docs)
  /\ wpc' = "get"
  /\ UNCHANGED <<index_objs, session_index, new_docs, build_docs, build_obj,
                 caller, q_ref, query_text, top_k, q_scores, ranked, qpc>>
  /\ UNCHANGED <<normVars, mergeVars, filterVars, asmVars, rerankVars,
                 againVars, exVars, moreVars>>

\* models/session_manager.py lines 288-295: with documents in the store,
\* SparseIndex(all_docs) is called
Rebuild ==
  /\ wpc = "get"
  /\ IF store_docs # <<>>
       THEN /\ build_docs' = store_docs
            /\ build_obj' = NewObject(session_index)
            /\ wpc' = "init"
       ELSE /\ UNCHANGED <<build_docs, build_obj>>
            /\ wpc' = "storage"
  /\ UNCHANGED <<index_objs, session_index, store_docs, new_docs, caller,
                 q_ref, query_text, top_k, q_scores, ranked, qpc>>
  /\ UNCHANGED <<normVars, mergeVars, filterVars, asmVars, rerankVars,
                 againVars, exVars, moreVars>>

\* models/session_manager.py line 295: rag_session.sparse_index = <the new object>
SwapIndex ==
  /\ wpc = "assign"
  /\ caller = "add_documents"
  /\ session_index' = build_obj
  /\ wpc' = "storage"
  /\ UNCHANGED <<index_objs, store_docs, new_docs, build_docs, build_obj,
                 caller, q_ref, query_text, top_k, q_scores, ranked, qpc>>
  /\ UNCHANGED <<normVars, mergeVars, filterVars, asmVars, rerankVars,
                 againVars, exVars, moreVars>>

\* models/session_manager.py line 299: storage.append_documents_to_session
StorageAppend ==
  /\ wpc = "storage"
  /\ wpc' = "done"
  /\ UNCHANGED <<index_objs, session_index, store_docs, new_docs, build_docs,
                 build_obj, caller, q_ref, query_text, top_k, q_scores, ranked,
                 qpc>>
  /\ UNCHANGED <<normVars, mergeVars, filterVars, asmVars, rerankVars,
                 againVars, exVars, moreVars>>

SwapNext ==
  \/ AddDocuments \/ Rebuild
  \/ IndexInit \/ IndexVectorizer \/ IndexFitTransform
  \/ SwapIndex \/ StorageAppend
  \/ QueryRead \/ QueryCheck \/ QueryScore \/ QueryRank

SpecSwap == SwapInit /\ [][SwapNext]_vars

(***************************************************************************)
(* Semantic retrieval: retrieve_relevant_chunks from the call of           *)
(* merge_candidate_scores (pipeline.py lines 314-359).  The dense and      *)
(* sparse candidates are what the searches before line 314 collected.  A   *)
(* chunk is a Document: an object identity, its metadata and its text.     *)
(***************************************************************************)
\* the chunks of the session's store, in the order vectorstore.get() lists them
StoreChunks ==
  << [oid |-> "A1", metadata |-> [chunk_id |-> "a-chunk-0", document_name |-> "a"],
      page_content |-> <<"a","b","c","d","e">>],
     [oid |-> "A2", metadata |-> [chunk_id |-> "a-chunk-1", document_name |-> "a"],
      page_content |-> <<"a","b","c","d","x">>],
     [oid |-> "B1", metadata |-> [chunk_id |-> "b-chunk-0", document_name |-> "b"],
      page_content |-> <<"z","z">>] >>

SemanticDenseScores == {0, 1}

SemanticSparseScores == {1}

SemanticDense == { [doc |-> d, score |-> x] : d \in Range(StoreChunks),
                                               x \in SemanticDenseScores }

SemanticSparse == { [doc |-> d, score |-> x] : d \in Range(StoreChunks),
                                                x \in SemanticSparseScores }

\* line 326 passes no threshold: the default of the parameter, ranking.py line 145,
\* taken to be the threshold exhaustive retrieval passes
DefaultThresholdExhaustive == EXHAUSTIVE_SIMILARITY_THRESHOLD

\* line 326 passes no threshold: the default of the parameter, ranking.py line 145
DefaultThreshold == SIMILARITY_THRESHOLD

\* line 359 passes no max_chunks: the default of the parameter, ranking.py line 173
DefaultMaxChunks == FINAL_CONTEXT_DOCS

\* line 322 passes no topo: the default of the parameter, ranking.py line 127
DefaultTopo == RERANK_TOP_K

\* lines 336-338: 'chunk-0' in chunk_id or 'chunk_0' in chunk_id
IsEarlyChunk(chunk_id) ==
  \/ Contains(<<"c","h","u","n","k","-","0">>, Chars(chunk_id))
  \/ Contains(<<"c","h","u","n","k","_","0">>, Chars(chunk_id))

\* lines 340-343: some entry of the list carries the chunk id
AlreadyIncluded(list, chunk_id) ==
  \E k \in 1..Len(list) : list[k].doc.metadata.chunk_id = chunk_id

\* lines 346-354: the entry built for a chunk of the store, around a new Document
EarlyChunkEntry(i) ==
  [doc |-> [oid |-> <<"E1", "E2", "E3">>[i],
            metadata |-> all_chunks[i].metadata,
            page_content |-> all_chunks[i].page_content],
   score |-> <<1, 1>>,
   has_rerank |-> TRUE,
   rerank_score |-> 1]

\* unique_entries without the chunks lines 330-356 insert
InsertNever(list, i) == list

\* line 351: unique_entries.insert(0, ...)
InsertEarly(list, i) == <<EarlyChunkEntry(i)>> \o list

\* the entry dict rerank_with_cross_encoder returned at position k
RerankedEntry(k) ==
  [doc |-> merged[reranked[k].entry].doc,
   score |-> merged[reranked[k].entry].score,
   has_rerank |-> TRUE,
   rerank_score |-> reranked[k].rerank_score]

\* the entry the assembler is handed
SemanticEntry(k, e) ==
  MkEntry(k, [metadata |-> [document_name |-> e.doc.metadata.document_name,
                            source |-> ""],
              score |-> e.score, has_rerank |-> e.has_rerank,
              rerank_score |-> e.rerank_score,
              page_words |-> WordCount(e.doc.page_content)])

SemanticInit ==
  /\ \E nd \in 0..MaxSemantic : \E ns \in 0..(MaxSemantic - nd) :
        /\ dense_candidates \in [1..nd -> SemanticDense]
        /\ sparse_candidates \in [1..ns -> SemanticSparse]
  /\ aggregated = <<>>
  /\ combined = <<>>
  /\ mi = 1
  /\ mpc = "dense"                       \* line 315: merge_candidate_scores is called
  /\ name_query \in BOOLEAN
  /\ all_chunks = StoreChunks
  /\ merged = <<>>
  /\ unique_entries = <<>>
  /\ sem_i = 0
  /\ spc = "merging"
  /\ NormIdle
  /\ FilterIdle
  /\ AsmIdle
  /\ RerankIdle
  /\ SparseIdle
  /\ AgainIdle
  /\ ExIdle
  /\ MemIdle

\* lines 315-322: merged, the fallback, and the call of the reranker
SemRerank ==
  /\ spc = "merging"
  /\ mpc = "done"
  /\ LET m == IF combined = <<>> /\ dense_candidates # <<>>
                THEN dense_candidates
                ELSE combined
     IN  /\ merged' = m
         /\ rr_candidates' = [i \in 1..Len(m) |-> i]
  /\ topo' = DefaultTopo
  /\ rpc' = "start"
  /\ spc' = "reranking"
  /\ UNCHANGED <<cross_encoder, model_loads, predict_calls, pairs, scores,
                 reranked, rri>>
  /\ UNCHANGED <<name_query, all_chunks, unique_entries, sem_i>>
  /\ UNCHANGED <<normVars, mergeVars, filterVars, asmVars, sparseVars,
                 againVars, exVars, memVars>>

\* line 326: filter_near_duplicates(reranked) is called
SemFilter ==
  /\ spc = "reranking"
  /\ rpc = "done"
  /\ filter_entries' = [k \in 1..Len(reranked) |->
                          [id |-> k, page_content |-> RerankedEntry(k).doc.page_content]]
  /\ similarity_threshold' = DefaultThreshold
  /\ filtered' = <<>>
  /\ fi' = 1
  /\ fpc' = "loop"
  /\ spc' = "filtering"
  /\ UNCHANGED <<name_query, all_chunks, merged, unique_entries, sem_i>>
  /\ UNCHANGED <<normVars, mergeVars, asmVars, rerankVars, sparseVars,
                 againVars, exVars, memVars>>

\* lines 326-333: unique_entries, and the test of the keywords
SemUnique ==
  /\ spc = "filtering"
  /\ fpc = "done"
  /\ unique_entries' = [k \in 1..Len(filtered) |-> RerankedEntry(filtered[k])]
  /\ sem_i' = 1
  /\ spc' = IF name_query THEN "forcing" ELSE "assemble"
  /\ UNCHANGED <<name_query, all_chunks, merged>>
  /\ UNCHANGED <<normVars, mergeVars, filterVars, asmVars, rerankVars,
                 sparseVars, againVars, exVars, memVars>>

\* lines 334-356: one iteration of the loop over the chunks of the store
SemForceStep ==
  /\ spc = "forcing"
  /\ sem_i <= Len(all_chunks)
  /\ LET chunk_id == all_chunks[sem_i].metadata.chunk_id IN
       IF IsEarlyChunk(chunk_id) /\ ~AlreadyIncluded(unique_entries, chunk_id)
         THEN unique_entries' = InsertEarly(unique_entries, sem_i)
         ELSE unique_entries' = unique_entries
  /\ sem_i' = sem_i + 1
  /\ UNCHANGED <<name_query, all_chunks, merged, spc>>
  /\ UNCHANGED <<normVars, mergeVars, filterVars, asmVars, rerankVars,
                 sparseVars, againVars, exVars, memVars>>

\* line 359: assemble_context_entries(unique_entries, question_type=question_type)
\* is called
SemAssemble ==
  /\ \/ spc = "assemble"
     \/ spc = "forcing" /\ sem_i > Len(all_chunks)
  /\ entries' = [k \in 1..Len(unique_entries) |-> SemanticEntry(k, unique_entries[k])]
  /\ max_chunks' = DefaultMaxChunks
  /\ exhaustive_mode' = FALSE
  /\ question_type' \in {"general", "list"}
  /\ apc' = "start"
  /\ spc' = "assembling"
  /\ UNCHANGED <<sorted_clusters, min_chunks_per_doc, effective_token_budget,
                 final_entries, token_count, chunks_added, ci, ei,
                 cluster_iters, active_clusters, it>>
  /\ UNCHANGED <<name_query, all_chunks, merged, unique_entries, sem_i>>
  /\ UNCHANGED <<normVars, mergeVars, filterVars, rerankVars, sparseVars,
                 againVars, exVars, memVars>>

\* lines 359-360: context_entries is bound to what the assembler returned
SemReturn ==
  /\ spc = "assembling"
  /\ apc = "done"
  /\ spc' = "done"
  /\ UNCHANGED <<name_query, all_chunks, merged, unique_entries, sem_i>>
  /\ UNCHANGED <<normVars, mergeVars, filterVars, asmVars, rerankVars,
                 sparseVars, againVars, exVars, memVars>>

SemanticNext ==
  \/ MergeNext
  \/ SemRerank \/ RerankNext
  \/ SemFilter \/ FilterNext
  \/ SemUnique \/ SemForceStep
  \/ SemAssemble \/ AsmNext
  \/ SemReturn

SpecSemantic == SemanticInit /\ [][SemanticNext]_vars

\* Both modes of retrieve_relevant_chunks.
RetrieveInit == SemanticInit \/ ExhaustiveInit

RetrieveNext == SemanticNext \/ ExhaustiveNext

SpecRetrieve == RetrieveInit /\ [][RetrieveNext]_vars

(***************************************************************************)
(* The four functions seen from memory.  An object is a Document, a        *)
(* (doc, score) tuple, an entry dict or a list; a reference is the         *)
(* object's position in the heap.  InitialHeap is the memory a call is     *)
(* handed: the Documents, the tuples or entry dicts that refer to them,    *)
(* and the argument list, for each argument in turn.  When the function    *)
(* returns, the heap holds what its statements allocated and wrote;        *)
(* objects it dropped before returning (aggregated, limited, doc_clusters' *)
(* dict) are left out.                                                     *)
(***************************************************************************)
Obj(kind, val, items) == [kind |-> kind, val |-> val, items |-> items]

\* an empty list object
EmptyList == Obj("list", <<>>, <<>>)

\* the objects of one argument list: n Documents, the n entries that refer
\* to them, and the list; `base` objects precede them in the heap
ArgObjects(base, kind, docvals, fields) ==
  LET n == Len(docvals) IN
    [i \in 1..(2 * n + 1) |->
       IF i <= n THEN Obj("doc", docvals[i], <<>>)
       ELSE IF i <= 2 * n
         THEN Obj(kind, [doc |-> base + i - n, fields |-> fields[i - n]], <<>>)
         ELSE Obj("list", <<>>, [k \in 1..n |-> base + n + k])]

\* the keys of an entry dict besides "doc"
Fields(score, has_rerank, rerank_score) ==
  [score |-> score, has_rerank |-> has_rerank, rerank_score |-> rerank_score]

MergeHeap ==
  ArgObjects(0, "tuple",
             [i \in 1..Len(dense_candidates) |-> dense_candidates[i].doc],
             [i \in 1..Len(dense_candidates) |->
                Fields(dense_candidates[i].score, FALSE, 0)])
  \o
  ArgObjects(2 * Len(dense_candidates) + 1, "tuple",
             [i \in 1..Len(sparse_candidates) |-> sparse_candidates[i].doc],
             [i \in 1..Len(sparse_candidates) |->
                Fields(sparse_candidates[i].score, FALSE, 0)])

RerankHeap ==
  ArgObjects(0, "dict",
             [i \in 1..Len(rr_candidates) |-> rr_candidates[i]],
             [i \in 1..Len(rr_candidates) |-> Fields(0, FALSE, 0)])

FilterHeap ==
  ArgObjects(0, "dict",
             [i \in 1..Len(filter_entries) |-> filter_entries[i].page_content],
             [i \in 1..Len(filter_entries) |-> Fields(0, FALSE, 0)])

AsmHeap ==
  ArgObjects(0, "dict",
             [i \in 1..Len(entries) |->
                [metadata |-> entries[i].metadata, page_words |-> entries[i].page_words]],
             [i \in 1..Len(entries) |->
                Fields(entries[i].score, entries[i].has_rerank, entries[i].rerank_score)])

\* the memory the running call was handed
InitialHeap ==
  IF mpc # "idle" THEN MergeHeap
  ELSE IF rpc # "idle" THEN RerankHeap
  ELSE IF fpc # "idle" THEN FilterHeap
  ELSE AsmHeap

\* the reference of the Document of the i-th dense / sparse candidate
DenseDoc(i) == i

SparseDoc(i) == 2 * Len(dense_candidates) + 1 + i

\* the reference of the i-th entry dict of a single argument list of n entries
EntryRef(n, i) == n + i

\* aggregated.setdefault(key, {"doc": doc, ...}): the Document kept for a key
\* is the one of the first candidate that carries the key
KeptDoc(doc) ==
  IF \E i \in 1..Len(dense_candidates) : dense_candidates[i].doc = doc
    THEN DenseDoc(CHOOSE i \in 1..Len(dense_candidates) :
                    /\ dense_candidates[i].doc = doc
                    /\ \A j \in 1..(i - 1) : dense_candidates[j].doc # doc)
    ELSE SparseDoc(CHOOSE i \in 1..Len(sparse_candidates) :
                    /\ sparse_candidates[i].doc = doc
                    /\ \A j \in 1..(i - 1) : sparse_candidates[j].doc # doc)

\* a list allocated after the objects of h, holding the references `items`
WithList(h, items) == Append(h, Obj("list", <<>>, items))

\* data = entry: the entry itself, no new object
SameEntry(h, ref) == <<h, ref>>

\* ranking.py line 137: data = dict(entry), a new dict with the entry's keys
CopyEntry(h, ref) == <<Append(h, h[ref]), Len(h) + 1>>

\* ranking.py lines 136-139: the loop over zip(limited, scores); the result
\* is the heap and the references appended to reranked
RECURSIVE AttachScores(_, _, _, _)
AttachScores(h, refs, ss, out) ==
  IF refs = <<>> \/ ss = <<>> THEN <<h, out>>
  ELSE LET data == CopyEntry(h, Head(refs))
           h2   == [data[1] EXCEPT ![data[2]].val.fields.has_rerank = TRUE,
                                   ![data[2]].val.fields.rerank_score = Head(ss)]
       IN  AttachScores(h2, Tail(refs), Tail(ss), Append(out, data[2]))

\* ranking.py lines 116-124: a new dict for every aggregated entry, in a
\* new list sorted in place
MergeEffects(h) ==
  LET dicts == [k \in 1..Len(combined) |->
                  Obj("dict", [doc |-> KeptDoc(combined[k].doc),
                               fields |-> Fields(combined[k].score, FALSE, 0)], <<>>)]
  IN  WithList(h \o dicts, [k \in 1..Len(combined) |-> Len(h) + k])

\* ranking.py lines 132-142: limited, the copies with their scores, and the
\* slice of the sorted list that is returned
RerankEffects(h) ==
  LET n        == Len(rr_candidates)
      limited  == [i \in 1..Len(Limited(rr_candidates)) |-> EntryRef(n, i)]
      attached == AttachScores(h, limited, scores, <<>>)
  IN  WithList(attached[1],
               [k \in 1..Len(reranked) |-> attached[2][reranked[k].entry]])

\* ranking.py lines 146-163: filtered, a new list of the accepted entries
FilterEffects(h) ==
  WithList(h, [k \in 1..Len(filtered) |-> EntryRef(Len(filter_entries), filtered[k])])

\* ranking.py lines 189-213 and 250-278: a new list for every cluster, sorted
\* in place, and final_entries, a new list of the selected entries
AsmEffects(h) ==
  LET n        == Len(entries)
      clusters == [k \in 1..Len(sorted_clusters) |->
                     Obj("list", <<>>, [x \in 1..Len(sorted_clusters[k]) |->
                                         EntryRef(n, sorted_clusters[k][x])])]
  IN  WithList(h \o clusters,
               [k \in 1..Len(final_entries) |-> EntryRef(n, final_entries[k])])

\* merge_candidate_scores returns: `return []` of line 113, or combined
MemMerge ==
  /\ mem_pc = "idle"
  /\ mpc = "done"
  /\ heap' = IF combined = <<>> THEN Append(InitialHeap, EmptyList)
             ELSE MergeEffects(InitialHeap)
  /\ result' = Len(heap')
  /\ mem_pc' = "returned"
  /\ UNCHANGED <<semVars, normVars, mergeVars, filterVars, asmVars,
                 rerankVars, sparseVars, againVars, exVars>>

\* rerank_with_cross_encoder returns: `return []` of line 129, or reranked[:topo]
MemRerank ==
  /\ mem_pc = "idle"
  /\ rpc = "done"
  /\ heap' = IF NotCandidates(rr_candidates) THEN Append(InitialHeap, EmptyList)
             ELSE RerankEffects(InitialHeap)
  /\ result' = Len(heap')
  /\ mem_pc' = "returned"
  /\ UNCHANGED <<semVars, normVars, mergeVars, filterVars, asmVars,
                 rerankVars, sparseVars, againVars, exVars>>

\* filter_near_duplicates returns filtered
MemFilter ==
  /\ mem_pc = "idle"
  /\ fpc = "done"
  /\ heap' = FilterEffects(InitialHeap)
  /\ result' = Len(heap')
  /\ mem_pc' = "returned"
  /\ UNCHANGED <<semVars, normVars, mergeVars, filterVars, asmVars,
                 rerankVars, sparseVars, againVars, exVars>>

\* assemble_context_entries returns: `return []` of line 186, or final_entries
MemAssemble ==
  /\ mem_pc = "idle"
  /\ apc = "done"
  /\ heap' = IF entries = <<>> THEN Append(InitialHeap, EmptyList)
             ELSE AsmEffects(InitialHeap)
  /\ result' = Len(heap')
  /\ mem_pc' = "returned"
  /\ UNCHANGED <<semVars, normVars, mergeVars, filterVars, asmVars,
                 rerankVars, sparseVars, againVars, exVars>>

MemoryInit == TwiceInit

MemoryNext ==
  \/ MergeNext \/ RerankNext \/ FilterNext \/ AsmNext
  \/ MemMerge \/ MemRerank \/ MemFilter \/ MemAssemble

SpecMemory == MemoryInit /\ [][MemoryNext]_vars

(***************************************************************************)
(* filter_near_duplicates applied to its own result.                       *)
(***************************************************************************)
\* Texts with an asymmetric similarity: the ratio of "aaaba" to "abaab" is
\* 0.8, the ratio of "abaab" to "aaaba" is 0.6.
IdempotentTexts ==
  { <<>>,
    <<"a","a","a","b","a">>,
    <<"a","b","a","a","b">>,
    <<"a","a","a","b","a"," ">>,
    <<"z","z">> }

IdempotentInit ==
  /\ \E n \in 0..MaxFilterEntries : \E f \in [1..n -> IdempotentTexts] :
        filter_entries = [i \in 1..n |-> [id |-> i, page_content |-> f[i]]]
  /\ similarity_threshold \in Thresholds
  /\ filtered = <<>>
  /\ fi = 1
  /\ fpc = "loop"
  /\ NormIdle
  /\ MergeIdle
  /\ AsmIdle
  /\ RestIdle

\* the list filter_near_duplicates returned: the accepted entries
FilteredList == [k \in 1..Len(filtered) |-> filter_entries[filtered[k]]]

\* filter_near_duplicates(filter_near_duplicates(L), t): the function is
\* called on the list it returned, with the same threshold
FilterOnOutput ==
  /\ fpc = "done"
  /\ run = 0
  /\ first_output' = [out |-> FilteredList, oracle |-> <<>>]
  /\ run' = 1
  /\ filter_entries' = FilteredList
  /\ filtered' = <<>>
  /\ fi' = 1
  /\ fpc' = "loop"
  /\ UNCHANGED similarity_threshold
  /\ UNCHANGED <<normVars, mergeVars, asmVars, rerankVars, sparseVars, exVars, moreVars>>

IdempotentNext == FilterNext \/ FilterOnOutput

SpecIdempotent == IdempotentInit /\ [][IdempotentNext]_vars

(***************************************************************************)
(* The stages of retrieval, one of them invoked.                           *)
(***************************************************************************)
StagesInit == TwiceInit \/ SparseInit

StagesNext == MergeNext \/ RerankNext \/ FilterNext \/ AsmNext \/ SparseNext

SpecStages == StagesInit /\ [][StagesNext]_vars

(***************************************************************************)
(* Properties of normalize_scores.                                         *)
(***************************************************************************)
NormDone == npc = "done"

\* comparisons of exact fractions with positive denominators
RatLeq(a, b) == a[1] * b[2] <= b[1] * a[2]

RatEq(a, b) == a[1] * b[2] = b[1] * a[2]

IsOne(r) == r[1] = r[2]

IsZero(r) == r[1] = 0

InUnitInterval(r) == r[2] > 0 /\ 0 <= r[1] /\ r[1] <= r[2]

IsMinimum(i) == \A j \in 1..Len(values) : values[i] <= values[j]

IsMaximum(i) == \A j \in 1..Len(values) : values[i] >= values[j]

AllEqual == \A i, j \in 1..Len(values) : values[i] = values[j]

\* all values lie within less than 1e-9 of each other
WithinTolerance ==
  \A i, j \in 1..Len(values) : Abs(values[i] - values[j]) < NORMALIZE_TOLERANCE

\* same length, every value in [0,1], order preserved
NormShape ==
  /\ Len(normalized) = Len(values)
  /\ \A i \in 1..Len(normalized) : InUnitInterval(normalized[i])
  /\ \A i, j \in 1..Len(values) :
        values[i] <= values[j] => RatLeq(normalized[i], normalized[j])

MinToZeroMaxToOne ==
  \A i \in 1..Len(values) :
     /\ IsMinimum(i) => IsZero(normalized[i])
     /\ IsMaximum(i) => IsOne(normalized[i])

AllOnes == \A i \in 1..Len(normalized) : IsOne(normalized[i])

\* C8 as stated: the result has the same length and values in [0,1]; if all
\* inputs are equal every output is 1.0, otherwise every minimum maps to 0.0
\* and every maximum to 1.0; the mapping preserves order.
C8_Normalization ==
  NormDone =>
    /\ NormShape
    /\ AllEqual => AllOnes
    /\ ~AllEqual => MinToZeroMaxToOne

\* C8 amended: every output is 1.0 if the inputs lie within less than 1e-9 of
\* each other (equal inputs included); otherwise every minimum maps to 0.0
\* and every maximum to 1.0; same length, values in [0,1], order preserved.
C8_NormalizationTolerance ==
  NormDone =>
    /\ NormShape
    /\ WithinTolerance => AllOnes
    /\ ~WithinTolerance => MinToZeroMaxToOne

\* C8 witness: a list with a minimum, a value in between and a maximum has
\* been normalized.
C8_Witness ==
  /\ NormDone
  /\ ~WithinTolerance
  /\ \E i, j, k \in 1..Len(values) :
        values[i] < values[j] /\ values[j] < values[k]

(***************************************************************************)
(* Properties of merge_candidate_scores.                                   *)
(***************************************************************************)
MergeDone == mpc = "done"

\* the candidates in the order the function reads them
AllCandidates == dense_candidates \o sparse_candidates

InputDocs == {AllCandidates[i].doc : i \in 1..Len(AllCandidates)}

\* the chunk_ids that occur in the two inputs
InputChunkIds == {d.metadata.chunk_id : d \in InputDocs} \ {""}

ScoresOf(cands, cid) ==
  {cands[i].score : i \in {x \in 1..Len(cands) : cands[x].doc.metadata.chunk_id = cid}}

MaxOrZero(S) == IF S = {} THEN 0 ELSE CHOOSE x \in S : \A y \in S : x >= y

\* C6: one fused entry per distinct chunk_id of the inputs, and the dense
\* (sparse) score of that chunk_id that enters normalization is the maximum
\* of the dense (sparse) scores supplied for it, 0 if it has none.
C6_FusionAggregation ==
  MergeDone =>
    \A cid \in InputChunkIds :
       /\ Cardinality({i \in 1..Len(combined) :
                         combined[i].doc.metadata.chunk_id = cid}) = 1
       /\ Cardinality({i \in 1..Len(aggregated) :
                         aggregated[i].doc.metadata.chunk_id = cid}) = 1
       /\ \A i \in 1..Len(aggregated) :
             aggregated[i].doc.metadata.chunk_id = cid =>
                /\ aggregated[i].dense_score = MaxOrZero(ScoresOf(dense_candidates, cid))
                /\ aggregated[i].sparse_score = MaxOrZero(ScoresOf(sparse_candidates, cid))

\* C6 witness: a chunk_id was supplied twice in the dense channel, the higher
\* score first, and not at all in the sparse channel.
C6_Witness ==
  /\ MergeDone
  /\ \E i, j \in 1..Len(dense_candidates) :
        /\ i < j
        /\ dense_candidates[i].doc.metadata.chunk_id # ""
        /\ dense_candidates[i].doc.metadata.chunk_id =
             dense_candidates[j].doc.metadata.chunk_id
        /\ dense_candidates[i].score > dense_candidates[j].score
        /\ ScoresOf(sparse_candidates, dense_candidates[i].doc.metadata.chunk_id) = {}

\* C7: every chunk object without a chunk_id is keyed by its own identity, so
\* each such object of the inputs has a fused entry of its own.
C7_IdentityFallback ==
  MergeDone =>
    \A d \in InputDocs :
       d.metadata.chunk_id = "" =>
          \E i \in 1..Len(combined) : combined[i].doc = d

\* position at which a key is first seen, dense list first, then sparse
FirstSeen(key) ==
  CHOOSE i \in 1..Len(AllCandidates) :
     /\ chunk_key(AllCandidates[i].doc) = key
     /\ \A j \in 1..(i-1) : chunk_key(AllCandidates[j].doc) # key

\* 0.7 * dense_norm + 0.3 * sparse_norm of the aggregated entry k, the two
\* channels normalized over all aggregated keys
ExpectedFused(k) ==
  LET dn == normalize_scores([x \in 1..Len(aggregated) |-> aggregated[x].dense_score])[k]
      sn == normalize_scores([x \in 1..Len(aggregated) |-> aggregated[x].sparse_score])[k]
  IN  << 7 * dn[1] * sn[2] + 3 * sn[1] * dn[2], 10 * dn[2] * sn[2] >>

\* C9: the result holds every aggregated key with its fused score, in
\* non-increasing order of fused score, entries of equal fused score in the
\* order in which their keys were first seen.
C9_FusionOrdering ==
  MergeDone =>
    /\ Len(combined) = Cardinality({chunk_key(d) : d \in InputDocs})
    /\ \A i \in 1..Len(combined) :
          \E k \in 1..Len(aggregated) :
             /\ aggregated[k].doc = combined[i].doc
             /\ RatEq(combined[i].score, ExpectedFused(k))
    /\ \A i, j \in 1..Len(combined) :
          i < j =>
             /\ RatLeq(combined[j].score, combined[i].score)
             /\ RatEq(combined[i].score, combined[j].score) =>
                  FirstSeen(chunk_key(combined[i].doc)) <
                  FirstSeen(chunk_key(combined[j].doc))

\* C9 witness: three keys were fused, two of them with equal fused score and
\* one with a different score that was first seen before another key that
\* outranks it.
C9_Witness ==
  /\ MergeDone
  /\ Len(combined) >= 3
  /\ \E i, j \in 1..Len(combined) :
        i # j /\ RatEq(combined[i].score, combined[j].score)
  /\ \E i, j \in 1..Len(combined) :
        /\ i < j
        /\ ~RatEq(combined[i].score, combined[j].score)
        /\ FirstSeen(chunk_key(combined[i].doc)) > FirstSeen(chunk_key(combined[j].doc))

(***************************************************************************)
(* Properties of filter_near_duplicates.                                   *)
(***************************************************************************)
FilterDone == fpc = "done"

Accepted == Range(filtered)

TextOf(i) == NormalizedText(filter_entries[i])

\* the similarity ratio of entry i to entry j exceeds the threshold
TooSimilar(i, j) == Exceeds(Ratio(TextOf(i), TextOf(j)), similarity_threshold)

\* C10: the result is an order-preserving subsequence of the input, and an
\* entry is accepted if and only if its normalized text is non-empty and its
\* similarity ratio to every previously accepted entry is at most the
\* threshold; so the first entry with a non-empty text is accepted, and
\* similarity to a dropped entry never causes a drop.
C10_DuplicateFilterRule ==
  FilterDone =>
    /\ \A x, y \in 1..Len(filtered) : x < y => filtered[x] < filtered[y]
    /\ Accepted \subseteq 1..Len(filter_entries)
    /\ \A i \in 1..Len(filter_entries) :
          i \in Accepted <=>
             /\ TextOf(i) # <<>>
             /\ \A j \in Accepted : j < i => ~TooSimilar(i, j)
    /\ \A i \in 1..Len(filter_entries) :
          (TextOf(i) # <<>> /\ \A j \in 1..(i-1) : TextOf(j) = <<>>) => i \in Accepted

\* C10 witness: an entry was accepted although it is too similar to an
\* earlier entry, which had itself been dropped as too similar to an accepted
\* one.
C10_Witness ==
  /\ FilterDone
  /\ \E i, j, k \in 1..Len(filter_entries) :
        /\ i < j /\ j < k
        /\ i \in Accepted /\ j \notin Accepted /\ k \in Accepted
        /\ TooSimilar(j, i)
        /\ TooSimilar(k, j)

\* The text with every whitespace run collapsed to a single space.
RECURSIVE CollapseRuns(_)
CollapseRuns(t) ==
  IF Len(t) < 2 THEN t
  ELSE IF IsSpace(t[1]) /\ IsSpace(t[2]) THEN CollapseRuns(Tail(t))
       ELSE <<t[1]>> \o CollapseRuns(Tail(t))

\* The text of entry i with whitespace runs collapsed, and trimmed.
CollapsedTextOf(i) == Strip(CollapseRuns(filter_entries[i].page_content))

\* C11: for a threshold below 1.0, of two entries whose texts are the same
\* once every whitespace run is collapsed to one space and the text is
\* trimmed, the later one is dropped when the earlier one is accepted.
C11_IdenticalNormalizedText ==
  FilterDone /\ similarity_threshold < 100 =>
    \A i, j \in 1..Len(filter_entries) :
       /\ i < j
       /\ CollapsedTextOf(i) = CollapsedTextOf(j)
       /\ i \in Accepted
       => j \notin Accepted

(***************************************************************************)
(* Properties of rerank_with_cross_encoder.                                *)
(***************************************************************************)
RerankDone == rpc = "done"

\* the position in the list handed to the oracle of the pair of candidate c
PairOf(c) == CHOOSE k \in 1..Len(pairs) : pairs[k] = c

\* C12: the oracle is invoked at most once in a call, once when there are
\* candidates, with the pairs of the first DENSE_CANDIDATE_K candidates and
\* no others; every returned entry is one of those candidates and carries
\* the score the oracle returned for its own pair.
C12_RerankCostBound ==
  /\ predict_calls <= 1
  /\ Len(pairs) <= DENSE_CANDIDATE_K
  /\ RerankDone /\ rr_candidates # <<>> =>
       /\ predict_calls = 1
       /\ Len(scores) = Len(pairs)
       /\ pairs = [k \in 1..Min2(DENSE_CANDIDATE_K, Len(rr_candidates)) |->
                      rr_candidates[k]]
       /\ \A x \in 1..Len(reranked) :
             /\ \E k \in 1..Len(pairs) : pairs[k] = reranked[x].entry
             /\ reranked[x].rerank_score = scores[PairOf(reranked[x].entry)]

\* a call with more candidates than DENSE_CANDIDATE_K has returned entries
C12_Witness ==
  /\ RerankDone
  /\ Len(rr_candidates) > DENSE_CANDIDATE_K
  /\ Len(pairs) = DENSE_CANDIDATE_K
  /\ reranked # <<>>

\* the scored candidates that the result leaves out
LeftOut == {k \in 1..Len(scores) :
              \A x \in 1..Len(reranked) : reranked[x].entry # pairs[k]}

\* C13: the result is in non-increasing rerank_score, has min(topo, number
\* of scored candidates) entries, no candidate left out scores higher than a
\* returned one, and candidates of equal rerank_score are in input order, a
\* candidate left out coming after the returned ones of its score.
C13_RerankOrdering ==
  RerankDone /\ rr_candidates # <<>> =>
    /\ Len(reranked) = Min2(topo, Len(scores))
    /\ \A x, y \in 1..Len(reranked) :
          x < y =>
            /\ reranked[x].rerank_score >= reranked[y].rerank_score
            /\ reranked[x].rerank_score = reranked[y].rerank_score =>
                  PairOf(reranked[x].entry) < PairOf(reranked[y].entry)
    /\ \A k \in LeftOut : \A x \in 1..Len(reranked) :
          /\ scores[k] <= reranked[x].rerank_score
          /\ scores[k] = reranked[x].rerank_score =>
                PairOf(reranked[x].entry) < k

\* a result cut to topo entries, holding two entries of equal score and an
\* entry that the sort moved ahead of an earlier candidate
C13_Witness ==
  /\ RerankDone
  /\ Len(scores) > topo
  /\ \E x, y \in 1..Len(reranked) :
        x < y /\ reranked[x].rerank_score = reranked[y].rerank_score
  /\ \E x \in 1..Len(reranked) : \E k \in LeftOut :
        k < PairOf(reranked[x].entry)

\* C14: a call with no candidates constructs no cross-encoder, leaves the
\* global unset if it was, never invokes the oracle, and returns [].
C14_RerankEmptyInput ==
  rr_candidates = <<>> /\ rpc # "idle" =>
    /\ model_loads = 0
    /\ predict_calls = 0
    /\ RerankDone => reranked = <<>>

\* a call with no candidates has returned while no model was loaded
C14_Witness ==
  /\ RerankDone
  /\ rr_candidates = <<>>
  /\ cross_encoder = "None"

(***************************************************************************)
(* Properties of SparseIndex.                                              *)
(***************************************************************************)
QueryDone == qpc = "done"

\* the index the session holds
SessionIndex == index_objs[session_index]

\* every text of the corpus is empty or whitespace only (the empty corpus
\* included)
AllBlank(documents) ==
  \A i \in 1..Len(documents) : Strip(documents[i].page_content) = <<>>

\* C15: the index of an empty corpus, or of a corpus whose texts are all
\* empty or whitespace, has no vectorizer and no matrix; a query of it,
\* whatever its text and top_k, goes no further than the test of line 55 and
\* returns [].
C15_InactiveIndex ==
  caller = "pipeline" /\ AllBlank(store_docs) =>
    /\ session_index # 0 =>
          ~SessionIndex.vectorizer.present /\ ~SessionIndex.matrix.present
    /\ qpc \in {"start", "check", "done"}
    /\ QueryDone => ranked = <<>>

\* a query with words in it has returned from the index of a corpus that is
\* not empty and has only blank texts
C15_Witness ==
  /\ caller = "pipeline"
  /\ QueryDone
  /\ store_docs # <<>>
  /\ AllBlank(store_docs)
  /\ Terms(query_text) # {}

\* the rows that the result of the query leaves out
Omitted == {i \in 1..Len(q_scores) :
              \A x \in 1..Len(ranked) : ranked[x].doc.id # i}

\* C16: the result has at most top_k pairs, each a chunk of the corpus with
\* its own score, strictly positive; the scores do not increase along the
\* result, chunks of equal score are in corpus order, and a chunk of
\* positive score is left out only if no returned chunk scores lower, nor
\* equal and later in the corpus.
C16_LexicalQueryResult ==
  caller = "pipeline" /\ QueryDone =>
    /\ Len(ranked) <= top_k
    /\ \A x \in 1..Len(ranked) :
          /\ ranked[x].doc.id \in 1..Len(q_scores)
          /\ ranked[x].doc = store_docs[ranked[x].doc.id]
          /\ ranked[x].score = q_scores[ranked[x].doc.id]
          /\ ranked[x].score > 0
    /\ \A x, y \in 1..Len(ranked) :
          x < y =>
            /\ ranked[x].score >= ranked[y].score
            /\ ranked[x].score = ranked[y].score =>
                  ranked[x].doc.id < ranked[y].doc.id
    /\ \A i \in Omitted : q_scores[i] > 0 =>
          \A x \in 1..Len(ranked) :
             /\ ranked[x].score >= q_scores[i]
             /\ ranked[x].score = q_scores[i] => ranked[x].doc.id < i

\* a result of top_k pairs, two of them of equal score, that leaves out a
\* chunk of positive score which is earlier in the corpus than a returned one
C16_Witness ==
  /\ caller = "pipeline"
  /\ QueryDone
  /\ Len(ranked) = top_k
  /\ \E x, y \in 1..Len(ranked) : x < y /\ ranked[x].score = ranked[y].score
  /\ \E i \in Omitted : q_scores[i] > 0 /\
        \E x \in 1..Len(ranked) : i < ranked[x].doc.id

(***************************************************************************)
(* Properties of assemble_context_entries.                                 *)
(***************************************************************************)
AsmDone == apc = "done"

\* the cluster an entry (given by id) belongs to
ClusterNameOf(id) == DocName(entries[id].metadata)

AllNames == {DocName(entries[i].metadata) : i \in 1..Len(entries)}

ClusterSize(name) ==
  Cardinality({i \in 1..Len(entries) : DocName(entries[i].metadata) = name})

\* the ids of the output that belong to cluster `name`
OutputOf(name) == {id \in Range(final_entries) : ClusterNameOf(id) = name}

\* total count_tokens of the output, recomputed from the output itself
OutputTokens ==
  SumSeq([i \in 1..Len(final_entries) |-> count_tokens(entries[final_entries[i]])])

\* total count_tokens of the whole input
InputTokens ==
  SumSeq([i \in 1..Len(entries) |-> count_tokens(entries[i])])

\* every cluster of the input holds at least two entries
EveryClusterHasTwo == \A name \in AllNames : ClusterSize(name) >= 2

\* C1: in default mode, with N clusters of at least 2 entries each,
\* max_chunks >= N and a budget that holds one entry per cluster (here even
\* the whole input), every cluster contributes at least one entry to the
\* output.
C1_DocumentDiversity ==
  ( /\ AsmDone
    /\ ~Broad
    /\ entries # <<>>
    /\ EveryClusterHasTwo
    /\ max_chunks >= Cardinality(AllNames)
    /\ InputTokens <= CONTEXT_TOKEN_BUDGET )
  => \A name \in AllNames : OutputOf(name) # {}

\* C2: no input entry appears twice in the assembled output, in any mode.
C2_NoDuplicates ==
  \A i, j \in 1..Len(final_entries) :
     i # j => final_entries[i] # final_entries[j]

\* C3: in default mode the tokens of the output never exceed the budget,
\* unless the first accepted entry alone exceeds it, and then no further
\* entry with a positive token count is accepted.
C3_TokenBudget ==
  ~Broad =>
    \/ OutputTokens <= CONTEXT_TOKEN_BUDGET
    \/ /\ final_entries # <<>>
       /\ count_tokens(entries[final_entries[1]]) > CONTEXT_TOKEN_BUDGET
       /\ \A i \in 2..Len(final_entries) :
             count_tokens(entries[final_entries[i]]) = 0

\* C3 witness: a default-mode call has returned only its first entry, which
\* alone exceeds the budget, although slots and entries were left.
C3_Witness ==
  /\ AsmDone
  /\ ~Broad
  /\ Len(final_entries) = 1
  /\ count_tokens(entries[final_entries[1]]) > CONTEXT_TOKEN_BUDGET
  /\ max_chunks >= 2
  /\ Len(entries) >= 2

\* C4: at every point of both passes and on return, at most max_chunks
\* entries are selected.
C4_EntryCountBound == Len(final_entries) <= max_chunks

\* C4 witness: a call has returned with the list full and entries left out.
C4_Witness ==
  /\ AsmDone
  /\ max_chunks > 0
  /\ Len(final_entries) = max_chunks
  /\ Len(entries) > max_chunks

\* the precondition of the quota scenario
QuotaScenario ==
  /\ ~Broad
  /\ entries # <<>>
  /\ EveryClusterHasTwo
  /\ max_chunks = 2 * Cardinality(AllNames)
  /\ InputTokens <= CONTEXT_TOKEN_BUDGET

\* C5: in default mode with N clusters of at least 2 entries, max_chunks = 2N
\* and a budget that fits them all, the output is exactly the 2 highest-scoring
\* entries of every cluster, 2N entries, all taken in the quota pass (the
\* round robin is never set up).
C5_QuotaScenario ==
  (AsmDone /\ QuotaScenario) =>
    /\ Len(final_entries) = 2 * Cardinality(AllNames)
    /\ \A name \in AllNames :
          /\ Cardinality(OutputOf(name)) = 2
          /\ \A i \in 1..Len(entries) :
                (ClusterNameOf(i) = name /\ i \notin OutputOf(name)) =>
                   \A id \in OutputOf(name) : ScoreKey(entries[id]) >= ScoreKey(entries[i])
    /\ cluster_iters = <<>>

\* C5 witness: the scenario has run on an input with more than 2N entries, one
\* of them scoring strictly below the others of its cluster.
C5_Witness ==
  /\ AsmDone
  /\ QuotaScenario
  /\ Len(entries) > max_chunks
  /\ \E i, j \in 1..Len(entries) :
        /\ ClusterNameOf(i) = ClusterNameOf(j)
        /\ ScoreKey(entries[i]) < ScoreKey(entries[j])
        /\ i < j

C18_EmptyInput ==
  /\ dense_candidates = <<>> /\ sparse_candidates = <<>> /\ mpc # "idle" =>
        /\ aggregated = <<>>
        /\ combined = <<>>
  /\ rr_candidates = <<>> /\ rpc # "idle" =>
        /\ rpc \in {"start", "done"}
        /\ reranked = <<>>
  /\ filter_entries = <<>> /\ fpc # "idle" =>
        /\ fi = 1
        /\ filtered = <<>>
  /\ entries = <<>> /\ apc # "idle" =>
        /\ apc \in {"start", "done"}
        /\ final_entries = <<>>
  /\ query_text = <<>> /\ qpc # "idle" =>
        /\ ranked = <<>>
        /\ \A i \in 1..Len(q_scores) : q_scores[i] = 0

\* a query with an empty text has returned from an index that is active
C18_Witness ==
  /\ QueryDone
  /\ query_text = <<>>
  /\ SessionIndex.vectorizer.present
  /\ SessionIndex.matrix.present
  /\ Len(q_scores) > 1

(***************************************************************************)
(* Properties of exhaustive retrieval.                                     *)
(***************************************************************************)
\* the retrieved candidates that the document filter matches
Matching ==
  SelectSeq(exhaustive_results,
            LAMBDA c : Matched(document_filter, c.document_name))

\* C19: with a document filter, the duplicate filter is handed every
\* retrieved candidate when the filter matches none, a warning being logged,
\* and only the matching candidates, with no warning, when it matches one
\* or more; the assembler is handed what the duplicate filter kept of them.
C19_FilterFallback ==
  document_filter # "" /\ xpc \in {"dedup", "filtering", "assembling", "done"} =>
    LET matching == Matching
        passed == IF matching = <<>> THEN exhaustive_results ELSE matching
    IN  /\ ex_candidates = passed
        /\ ex_warnings > 0 <=> matching = <<>>
        /\ xpc \in {"filtering", "assembling", "done"} =>
              /\ Len(filter_entries) = Len(passed)
              /\ \A i \in 1..Len(filter_entries) :
                    filter_entries[i].page_content = passed[i].page_content
        /\ xpc \in {"assembling", "done"} =>
              /\ Len(entries) = Len(filtered)
              /\ \A k \in 1..Len(entries) :
                    /\ filtered[k] \in 1..Len(passed)
                    /\ entries[k].metadata.document_name =
                         passed[filtered[k]].document_name

\* retrieval has returned chunks after a filter that matched none of
\* several retrieved candidates, all of them of named documents
C19_Witness ==
  /\ xpc = "done"
  /\ document_filter # ""
  /\ Len(exhaustive_results) > 1
  /\ \A i \in 1..Len(exhaustive_results) :
        exhaustive_results[i].document_name # ""
  /\ Matching = <<>>
  /\ ex_warnings > 0
  /\ context_entries # <<>>

(***************************************************************************)
(* Properties of add_documents_to_session.                                 *)
(***************************************************************************)
\* the chunks of the session before the call
OldDocs ==
  IF wpc = "add" THEN store_docs
  ELSE SubSeq(store_docs, 1, Len(store_docs) - Len(new_docs))

\* the chunks of the session after line 285
AllDocs == IF wpc = "add" THEN Renumbered(store_docs \o new_docs) ELSE store_docs

\* the complete index of the old corpus, or the complete index of the new
OldOrNew(index) ==
  \/ index = CompleteIndex(OldDocs)
  \/ index = CompleteIndex(AllDocs)

\* C20: while add_documents_to_session rebuilds the index, the index the
\* session refers to, and the index a query has read from the session and
\* works on, is the complete index of the old corpus or the complete index
\* of the new one, and the pairs the query returns are chunks of that
\* index.
C20_AtomicIndexSwap ==
  caller = "add_documents" =>
    /\ OldOrNew(SessionIndex)
    /\ qpc # "start" =>
          /\ OldOrNew(index_objs[q_ref])
          /\ \A x \in 1..Len(ranked) :
                /\ ranked[x].doc.id \in 1..Len(index_objs[q_ref].documents)
                /\ ranked[x].doc = index_objs[q_ref].documents[ranked[x].doc.id]

\* a query works on the old index while the new one, of a larger corpus
\* with words in it, has its vectorizer and not yet its matrix
C20_Witness ==
  /\ caller = "add_documents"
  /\ qpc = "score"
  /\ q_ref = 1
  /\ wpc = "fit"
  /\ index_objs[2].stage = "vectorizer"
  /\ new_docs # <<>>
  /\ session_index = 1

(***************************************************************************)
(* Properties of the budget and quota of assemble_context_entries.         *)
(***************************************************************************)
\* the call has computed its budget and quota (entries is not empty)
QuotaComputed == apc # "start" /\ entries # <<>>

\* the base budget in default mode, three times the base budget otherwise
BudgetIs(broad) ==
  effective_token_budget = (IF broad THEN 3 * CONTEXT_TOKEN_BUDGET
                                     ELSE CONTEXT_TOKEN_BUDGET)

\* the quota is max(1, max_chunks div 2N) if `wide`, max(2, max_chunks div N)
\* otherwise, N being the number of clusters of the input
QuotaIs(wide) ==
  LET n    == Cardinality(AllNames)
      half == max_chunks \div (2 * n)
      even == max_chunks \div n
  IN  IF wide
        THEN min_chunks_per_doc = (IF half >= 1 THEN half ELSE 1)
        ELSE min_chunks_per_doc = (IF even >= 2 THEN even ELSE 2)

\* C21 as stated: in broad mode (exhaustive_mode or a list/count question)
\* the budget is 3 times the base budget and the quota is
\* max(1, max_chunks div 2N); in every other case the budget is the base
\* budget and the quota is max(2, max_chunks div N).
C21_ModeQuotaBudget ==
  QuotaComputed => BudgetIs(Broad) /\ QuotaIs(Broad)

\* C21 amended: the budget is 3 times the base budget exactly in broad mode;
\* the quota is max(1, max_chunks div 2N) exactly when question_type is list
\* or count, and max(2, max_chunks div N) in every other case, exhaustive
\* mode with another question type included.
C21_QuotaByQuestionType ==
  QuotaComputed => BudgetIs(Broad) /\ QuotaIs(IsListOrCount(question_type))

\* C21 witness: an exhaustive call on a question that is not list/count has
\* run with the tripled budget and the quota max_chunks div N > 2.
C21_Witness ==
  /\ AsmDone
  /\ entries # <<>>
  /\ exhaustive_mode
  /\ ~IsListOrCount(question_type)
  /\ effective_token_budget = 3 * CONTEXT_TOKEN_BUDGET
  /\ min_chunks_per_doc > 2
  /\ min_chunks_per_doc = max_chunks \div Cardinality(AllNames)

(***************************************************************************)
(* Properties of the quota pass (pass 1) of assemble_context_entries.      *)
(***************************************************************************)
\* the quota pass is at an entry (the loops of lines 237 and 239)
InPass1 == apc = "pass1" /\ ci <= Len(sorted_clusters)

\* the entry the quota pass is at
Pass1Entry == entries[sorted_clusters[ci][ei]]

\* the entry the quota pass is at would push the running total over the
\* budget while at least one entry has been accepted
OverBudget ==
  /\ token_count + count_tokens(Pass1Entry) > effective_token_budget
  /\ final_entries # <<>>

\* how many entries of cluster k the quota pass has gone through: those before
\* the current one in its current cluster; in a cluster it has left, those up
\* to the one that filled the quota, or all of them if the quota was not filled
Pass1Visited(k) ==
  IF k > ci THEN 0
  ELSE IF k = ci THEN ei - 1
  ELSE LET cluster  == sorted_clusters[k]
           accepted == {x \in 1..Len(cluster) : cluster[x] \in Range(final_entries)}
       IN  IF Cardinality(accepted) >= min_chunks_per_doc
             THEN SetMax(accepted)
             ELSE Len(cluster)

\* the quota pass has met an entry it did not accept
Pass1Skipped ==
  \E k \in 1..Len(sorted_clusters) : \E x \in 1..Pass1Visited(k) :
     sorted_clusters[k][x] \notin Range(final_entries)

\* C22 as stated: in default mode, once the quota pass has met an entry that
\* would push the running token total over the budget while at least one
\* entry had been accepted, the quota pass adds no further entry.
C22_Pass1StopRule ==
  [][ (apc = "pass1" /\ ~Broad /\ Pass1Skipped) =>
         final_entries' = final_entries ]_vars

\* C22 amended: in default mode, an entry that would push the running token
\* total over the budget while at least one entry has been accepted is not
\* added by the quota pass; the pass skips it and goes on with the next entry.
C22_Pass1SkipRule ==
  [][ (InPass1 /\ ~Broad /\ OverBudget) =>
         /\ final_entries' = final_entries
         /\ token_count' = token_count
         /\ Full \/ (apc' = "pass1" /\ <<ci', ei'>> # <<ci, ei>>) ]_vars

\* C22 witness: in default mode the quota pass has skipped an entry of a
\* cluster for the budget and then accepted a later entry of that cluster.
C22_Witness ==
  /\ apc = "pass1"
  /\ ~Broad
  /\ \E k \in 1..Len(sorted_clusters) :
       \E x, y \in 1..Pass1Visited(k) :
          /\ x < y
          /\ sorted_clusters[k][x] \notin Range(final_entries)
          /\ sorted_clusters[k][y] \in Range(final_entries)

(***************************************************************************)
(* Properties of the order of the output of assemble_context_entries.      *)
(***************************************************************************)
\* the best score of the entries of cluster `name`
BestScore(name) ==
  SetMax({ScoreKey(entries[i]) : i \in {j \in 1..Len(entries) : ClusterNameOf(j) = name}})

\* a list of entry ids is a sequence of per-cluster blocks, the clusters in
\* non-increasing order of best score, each block in non-increasing score
InBlocks(ids) ==
  /\ \A i, j \in 1..Len(ids) :
       i < j =>
         IF ClusterNameOf(ids[i]) = ClusterNameOf(ids[j])
           THEN ScoreKey(entries[ids[i]]) >= ScoreKey(entries[ids[j]])
           ELSE BestScore(ClusterNameOf(ids[i])) >= BestScore(ClusterNameOf(ids[j]))
  /\ \A i, j, l \in 1..Len(ids) :
       (i < j /\ j < l /\ ClusterNameOf(ids[i]) = ClusterNameOf(ids[l])) =>
          ClusterNameOf(ids[j]) = ClusterNameOf(ids[i])

\* the clusters listed in non-increasing order of best score
ClustersByBestScore ==
  \A k, l \in 1..Len(sorted_clusters) :
     k < l => BestScore(ClusterNameOf(sorted_clusters[k][1])) >=
              BestScore(ClusterNameOf(sorted_clusters[l][1]))

\* a step of the round robin: it accepts at most one entry, of the cluster
\* it is at, appends it to the output, and then moves to the next cluster of
\* the cluster order, or from the last one back to the first for a new cycle
RoundRobinStep ==
  /\ \/ final_entries' = final_entries
     \/ /\ it <= Len(sorted_clusters)
        /\ it' = it + 1
        /\ \E x \in 1..Len(sorted_clusters[it]) :
              final_entries' = Append(final_entries, sorted_clusters[it][x])
  /\ \/ it' = it
     \/ it' = it + 1
     \/ it > Len(sorted_clusters) /\ it' = 1

\* C23: the output is the quota-pass entries followed by the round-robin
\* entries: until the quota pass ends the output is a sequence of per-cluster
\* blocks in non-increasing order of the clusters' best score, each block in
\* non-increasing entry score (rerank_score if present, else the fused
\* score); from then on entries are only appended, each cycle of the round
\* robin contributing at most one entry per cluster and visiting the clusters
\* in the same cluster order.
C23_OutputOrder ==
  /\ [](apc = "pass1" => (InBlocks(final_entries) /\ ClustersByBestScore))
  /\ [][apc = "pass2" => RoundRobinStep]_vars

\* C23 witness: a call has returned entries of two clusters from the quota
\* pass, one block holding two entries of different scores, followed by an
\* entry from the round robin.
C23_Witness ==
  /\ AsmDone
  /\ cluster_iters # <<>>
  /\ \E k \in 1..Len(cluster_iters) :
        /\ cluster_iters[k] > min_chunks_per_doc + 1
        /\ sorted_clusters[k][cluster_iters[k] - 1] = final_entries[Len(final_entries)]
  /\ \E i, j \in 1..Len(final_entries) :
        /\ i < j
        /\ ClusterNameOf(final_entries[i]) = ClusterNameOf(final_entries[j])
        /\ ScoreKey(entries[final_entries[i]]) > ScoreKey(entries[final_entries[j]])
  /\ Cardinality({ClusterNameOf(final_entries[i]) : i \in 1..Len(final_entries)}) = 2

(***************************************************************************)
(* Properties of the round robin (pass 2) of assemble_context_entries.     *)
(***************************************************************************)
\* the second pass was entered (line 259 built the iterators)
Pass2Entered == cluster_iters # <<>>

\* every entry beyond the quota of every cluster has been taken from its
\* iterator, to be accepted or rejected for the budget
AllConsidered ==
  \A k \in 1..Len(sorted_clusters) : cluster_iters[k] > Len(sorted_clusters[k])

\* C24: the second pass terminates, and when it has, either the output holds
\* max_chunks entries or every entry beyond the quota of every cluster has
\* been considered.
C24_RoundRobinTerminates ==
  /\ (apc = "pass2") ~> AsmDone
  /\ []((AsmDone /\ Pass2Entered) =>
          (Len(final_entries) = max_chunks \/ AllConsidered))

\* C24 witness: a second pass has ended with slots left, after going through
\* the entries beyond the quota, one of them rejected for the budget.
C24_Witness ==
  /\ AsmDone
  /\ Pass2Entered
  /\ Len(final_entries) < max_chunks
  /\ AllConsidered
  /\ \E k \in 1..Len(sorted_clusters) :
       \E x \in (min_chunks_per_doc + 1)..Len(sorted_clusters[k]) :
          sorted_clusters[k][x] \notin Range(final_entries)

(***************************************************************************)
(* Properties of broad mode of assemble_context_entries.                   *)
(***************************************************************************)
\* exhaustive_mode is true or question_type is list/count
BroadCall == exhaustive_mode \/ question_type \in {"list", "count"}

\* C25: in broad mode no entry is skipped because of the token budget: the
\* output holds exactly min(max_chunks, number of input entries) entries, and
\* every input entry when max_chunks allows it.
C25_BroadNeverRejects ==
  (AsmDone /\ BroadCall) =>
     /\ Len(final_entries) =
          (IF max_chunks <= Len(entries) THEN max_chunks ELSE Len(entries))
     /\ Len(entries) <= max_chunks => Range(final_entries) = 1..Len(entries)

\* C25 witness: a broad-mode call has returned every entry of its input,
\* their tokens exceeding three times the base budget.
C25_Witness ==
  /\ AsmDone
  /\ BroadCall
  /\ OutputTokens > 3 * CONTEXT_TOKEN_BUDGET
  /\ Len(final_entries) = Len(entries)
  /\ Pass2Entered

(***************************************************************************)
(* Properties of retrieve_relevant_chunks.                                 *)
(***************************************************************************)
\* semantic retrieval has its duplicates filtered
SemFiltered ==
  spc \in {"filtering", "forcing", "assemble", "assembling", "done"} /\ fpc = "done"

\* exhaustive retrieval has its duplicates filtered
ExFiltered == xpc \in {"filtering", "assembling", "done"} /\ fpc = "done"

\* among the entries with a non-empty text, the dropped ones are those whose
\* similarity ratio to some entry accepted before them exceeds t hundredths
DroppedAbove(t) ==
  \A i \in 1..Len(filter_entries) :
     TextOf(i) # <<>> =>
       (i \notin Accepted <=>
          \E j \in Accepted : j < i /\ Exceeds(Ratio(TextOf(i), TextOf(j)), t))

\* C26 as stated: semantic retrieval, which passes no threshold, drops a
\* candidate exactly when its similarity ratio to some accepted entry exceeds
\* 0.82; exhaustive retrieval filters with the threshold 0.90.
C26_DefaultThreshold ==
  /\ SemFiltered => DroppedAbove(82)
  /\ ExFiltered => DroppedAbove(90)

\* C26 amended: semantic retrieval drops a candidate with a non-empty text
\* exactly when its similarity ratio to some entry accepted before it exceeds
\* 0.75, the value of SIMILARITY_THRESHOLD; exhaustive retrieval filters
\* with the threshold 0.90.
C26_DefaultThresholdValue ==
  /\ SemFiltered => DroppedAbove(75)
  /\ ExFiltered => DroppedAbove(90)

\* C26 witness: semantic retrieval has dropped a candidate whose similarity
\* ratio to the accepted entries exceeds 0.75 but not 0.82.
C26_Witness ==
  /\ SemFiltered
  /\ \E i \in 1..Len(filter_entries) :
        /\ i \notin Accepted
        /\ TextOf(i) # <<>>
        /\ \E j \in Accepted : j < i /\ Exceeds(Ratio(TextOf(i), TextOf(j)), 75)
        /\ \A j \in Accepted : ~Exceeds(Ratio(TextOf(i), TextOf(j)), 82)

\* the stages are entered in the order fusion, rerank, duplicate filter,
\* assembly, each after the one before it has returned
StagesInOrder ==
  /\ rpc # "idle" => mpc = "done"
  /\ fpc # "idle" => rpc = "done"
  /\ apc # "idle" => fpc = "done"

\* the assembler has been called
Handed == spc \in {"assembling", "done"}

\* the entries the reranker scored and the duplicate filter accepted, in the
\* order the filter returned them
ScoredAndAccepted == [k \in 1..Len(filtered) |-> RerankedEntry(filtered[k])]

\* an entry built after the filter for a chunk-0 of the store
IsEarlyEntry(e) ==
  /\ \E i \in 1..Len(StoreChunks) :
        /\ e.doc.metadata = StoreChunks[i].metadata
        /\ e.doc.page_content = StoreChunks[i].page_content
        /\ IsEarlyChunk(StoreChunks[i].metadata.chunk_id)
  /\ \A k \in 1..Len(ScoredAndAccepted) : ScoredAndAccepted[k].doc.oid # e.doc.oid
  /\ e.rerank_score = 1
  /\ e.score = <<1, 1>>

MemReturned == mem_pc = "returned"

\* the references the call was handed
Handles == 1..Len(InitialHeap)

\* C28: when one of merge_candidate_scores, rerank_with_cross_encoder,
\* filter_near_duplicates and assemble_context_entries has returned, every
\* object it was handed (the argument lists, the tuples and entry dicts in
\* them, the Documents with their text and metadata) is as it was, the list
\* returned is a new object, and what rerank_with_cross_encoder returns are
\* new dicts carrying rerank_score, one per scored input entry and equal to
\* it in the other keys.
C28_NoMutation ==
  MemReturned =>
    /\ Len(heap) > Len(InitialHeap)
    /\ \A ref \in Handles : heap[ref] = InitialHeap[ref]
    /\ result \notin Handles
    /\ heap[result].kind = "list"
    /\ rpc = "done" =>
         \A k \in 1..Len(heap[result].items) :
            LET data == heap[result].items[k] IN
              /\ data \notin Handles
              /\ heap[data].val.fields.has_rerank
              /\ \E ref \in Handles :
                    /\ InitialHeap[ref].kind = "dict"
                    /\ InitialHeap[ref].val.doc = heap[data].val.doc
                    /\ InitialHeap[ref].val.fields.score = heap[data].val.fields.score
                    /\ ~InitialHeap[ref].val.fields.has_rerank

\* C28 witness: rerank_with_cross_encoder has returned a list of two or more
\* scored entries.
C28_Witness ==
  /\ MemReturned
  /\ rpc = "done"
  /\ Len(heap[result].items) >= 2
  /\ heap[heap[result].items[1]].val.fields.rerank_score >
       heap[heap[result].items[2]].val.fields.rerank_score

(***************************************************************************)
(* Properties of filter_near_duplicates applied to its own result.         *)
(***************************************************************************)
\* the second call, on the result of the first, has returned
FilteredTwice == run = 1 /\ fpc = "done"

\* C29: filter_near_duplicates(filter_near_duplicates(L)) equals
\* filter_near_duplicates(L) for every list and threshold: the second call
\* returns the entries of the first result, all of them and in the same order.
C29_FilterIdempotent ==
  FilteredTwice => FilteredList = first_output.out

\* C29 witness: the second call has returned two entries whose similarity is
\* asymmetric, the ratio of the first to the second exceeding the threshold
\* and the ratio of the second to the first not, the first call having
\* dropped an entry.
C29_Witness ==
  /\ FilteredTwice
  /\ \E x, y \in 1..Len(filtered) :
        /\ x < y
        /\ Exceeds(Ratio(TextOf(filtered[x]), TextOf(filtered[y])), similarity_threshold)
        /\ ~Exceeds(Ratio(TextOf(filtered[y]), TextOf(filtered[x])), similarity_threshold)
  /\ \E k \in 1..Len(first_output.out) : first_output.out[k].id > k

(***************************************************************************)
(* Properties of list/count questions.                                     *)
(***************************************************************************)
\* C30: when question_type is list or count and max_chunks is at least the
\* number of clusters, every cluster contributes at least one entry to the
\* output, whatever the token counts of the entries.
C30_ListCoverage ==
  ( /\ AsmDone
    /\ question_type \in {"list", "count"}
    /\ max_chunks >= Cardinality(AllNames) )
  => \A name \in AllNames : OutputOf(name) # {}

\* C30 witness: a list question has returned with max_chunks equal to the
\* number of clusters, two of them, the entries of the input exceeding
\* three times the base budget together, and an entry left out.
C30_Witness ==
  /\ AsmDone
  /\ question_type \in {"list", "count"}
  /\ Cardinality(AllNames) = 2
  /\ max_chunks = 2
  /\ Len(entries) > 2
  /\ \A name \in AllNames : OutputOf(name) # {}
  /\ InputTokens > 3 * CONTEXT_TOKEN_BUDGET

=============================================================================
